---------------------------- MODULE Spec2Model ----------------------------
(***************************************************************************)
(* Red/blue-eyed villagers puzzle: the village (src/src/puzzle.py), its    *)
(* reasoning policies (src/src/reasoning.py) and the population setup      *)
(* (src/src/simulation.py, src/src/web_server.py).                         *)
(*                                                                         *)
(* Conventions                                                             *)
(*   - Optional[int] is a sequence of length <= 1: <<>> is None.           *)
(*   - a confidence / probability is an integer number of hundredths       *)
(*     (0.95 is 95); Fallible's mistake_rate and random draw are           *)
(*     thousandths.                                                        *)
(*   - a text is a sequence of characters; each Chinese character is       *)
(*     written as an ASCII token, "x" is any character that occurs in no   *)
(*     phrase list, "sp" a blank and "nl" a newline.                       *)
(*   - reasoning_log is kept as its length (entries are narrative).        *)
(***************************************************************************)
EXTENDS Integers, Sequences, FiniteSets, TLC

VARIABLES
    villagers,            \* Village.villagers: sequence of Villager records
    reasoning_policy,     \* Village.reasoning_policy
    announcement_made,    \* Village.announcement_made
    current_day,          \* Village.current_day
    knowledge_level,      \* Village.knowledge_level
    left_yesterday_count, \* Village.left_yesterday_count
    api_key,              \* environment: OPENAI_API_KEY / SILICONFLOW_API_KEY set
    pc,                   \* position inside Village.simulate_day
    i,                    \* index of the decide loop of simulate_day
    leaving_today,        \* local list leaving_today of simulate_day (ids)
    raised,               \* the last simulate_day ended by an exception
    h_announce_day,       \* history: current_day at the first announcement
    call,                 \* the call under test (SpecDecide, SpecReason, SpecSetup)
    APP_STATE,            \* web_server.APP_STATE (village is a reference into heap)
    heap,                 \* the Village objects web_server has created
    requests              \* the POST requests, one handler thread each

vars == << villagers, reasoning_policy, announcement_made, current_day,
           knowledge_level, left_yesterday_count, api_key, pc, i,
           leaving_today, raised, h_announce_day, call,
           APP_STATE, heap, requests >>

\* the variables of the hosting service
server_vars == << APP_STATE, heap, requests >>

(***************************** bounds **************************************)
\* largest population (red + blue) and number of rounds of a run
MaxVillagers == 4
MaxDays == 4
\* largest population of a run whose policy issues remote requests
MaxRemote == 2
\* largest BoundedInduction max_k (the smallest is -1) and largest
\* MaxDayCutoff max_day (the smallest is 1) tried
MaxK == 1
MaxCutoff == 2

(************************ program constants ********************************)
DefaultCertaintyThreshold == 95

None == << >>
Some(x) == << x >>

(***************************** Villager *************************************)
NewVillager(id, eye_color, villager_type) ==
    [ id |-> id, eye_color |-> eye_color, villager_type |-> villager_type,
      observed_red_eyes |-> 0, has_left |-> FALSE, left_on_day |-> None,
      reasoning_log |-> 0,
      observed_left_yesterday |-> 0, observed_left_total |-> 0 ]

\* Villager.observe: count the others that are red and have not left.
Observe(v, others) ==
    [ v EXCEPT !.observed_red_eyes =
        Cardinality({ j \in 1..Len(others) :
                        /\ others[j].id # v.id
                        /\ others[j].eye_color = "RED"
                        /\ ~others[j].has_left }) ]

\* Faulty variant (sensitivity of C23): the stamp is the day before.
Leave_yesterday(v, day) == [ v EXCEPT !.has_left = TRUE, !.left_on_day = Some(day - 1) ]

\* Villager.leave: unconditional assignment of both fields.
Leave(v, day) == [ v EXCEPT !.has_left = TRUE, !.left_on_day = Some(day) ]

_is_blue(v) == v.eye_color = "BLUE"


(*********************** deterministic policies *****************************)
\* What a decide call gives back: the decision, how many entries it appended
\* to villager.reasoning_log, whether it raised, whether it issued a remote
\* request, and (External-Delegate only) its locals: confidence_red as parsed or taken from the fallback summary
\* (parsed_confidence), confidence_red as logged, and the forced flag.
Result(leave, logged) ==
    [ leave |-> leave, logged |-> logged, raised |-> FALSE, requested |-> FALSE,
      parsed_confidence |-> None, confidence_red |-> None, forced |-> FALSE ]

Raise == [ leave |-> FALSE, logged |-> 0, raised |-> TRUE, requested |-> FALSE,
           parsed_confidence |-> None, confidence_red |-> None, forced |-> FALSE ]

_perfect_induction_decide_no_log(v, day, public_announcement_made) ==
    IF v.has_left THEN FALSE
    ELSE IF ~public_announcement_made THEN FALSE
    ELSE IF _is_blue(v) THEN FALSE
    ELSE IF v.observed_red_eyes = 0 THEN day = 1
    ELSE day = v.observed_red_eyes + 1

\* Faulty variant (sensitivity of C1): the inductive step leaves one day
\* early, on day k instead of day k + 1.
PerfectInductionPolicy_decide_early(v, day, public_announcement_made) ==
    IF v.has_left THEN Result(FALSE, 0)
    ELSE IF ~public_announcement_made THEN Result(FALSE, 1)
    ELSE IF _is_blue(v) THEN Result(FALSE, 1)
    ELSE IF v.observed_red_eyes = 0
         THEN IF day = 1 THEN Result(TRUE, 1) ELSE Result(FALSE, 0)
    ELSE LET my_leave_day == v.observed_red_eyes IN
         IF day < my_leave_day THEN Result(FALSE, 1)
         ELSE IF day = my_leave_day THEN Result(TRUE, 1)
         ELSE Result(FALSE, 0)

\* Faulty variant (sensitivity of C2): the announcement flag is not consulted.
PerfectInductionPolicy_decide_unanchored(v, day, public_announcement_made) ==
    IF v.has_left THEN Result(FALSE, 0)
    ELSE IF _is_blue(v) THEN Result(FALSE, 1)
    ELSE IF v.observed_red_eyes = 0
         THEN IF day = 1 THEN Result(TRUE, 1) ELSE Result(FALSE, 0)
    ELSE LET my_leave_day == v.observed_red_eyes + 1 IN
         IF day < my_leave_day THEN Result(FALSE, 1)
         ELSE IF day = my_leave_day THEN Result(TRUE, 1)
         ELSE Result(FALSE, 0)

\* Faulty variant (sensitivity of C6): the eye colour is not consulted.
PerfectInductionPolicy_decide_colourblind(v, day, public_announcement_made) ==
    IF v.has_left THEN Result(FALSE, 0)
    ELSE IF ~public_announcement_made THEN Result(FALSE, 1)
    ELSE IF v.observed_red_eyes = 0
         THEN IF day = 1 THEN Result(TRUE, 1) ELSE Result(FALSE, 0)
    ELSE LET my_leave_day == v.observed_red_eyes + 1 IN
         IF day < my_leave_day THEN Result(FALSE, 1)
         ELSE IF day = my_leave_day THEN Result(TRUE, 1)
         ELSE Result(FALSE, 0)

\* Faulty variant (sensitivity of C37): a red-eyed villager whose day has
\* passed still leaves.
PerfectInductionPolicy_decide_catchup(v, day, public_announcement_made) ==
    IF v.has_left THEN Result(FALSE, 0)
    ELSE IF ~public_announcement_made THEN Result(FALSE, 1)
    ELSE IF _is_blue(v) THEN Result(FALSE, 1)
    ELSE IF v.observed_red_eyes = 0
         THEN Result(TRUE, 1)
    ELSE LET my_leave_day == v.observed_red_eyes + 1 IN
         IF day < my_leave_day THEN Result(FALSE, 1)
         ELSE Result(TRUE, 1)

\* Faulty variant (sensitivity of C39): a red-eyed villager also follows
\* yesterday's leavers.
PerfectInductionPolicy_decide_following(v, day, public_announcement_made) ==
    IF v.has_left THEN Result(FALSE, 0)
    ELSE IF ~public_announcement_made THEN Result(FALSE, 1)
    ELSE IF _is_blue(v) THEN Result(FALSE, 1)
    ELSE IF v.observed_left_yesterday > 0 THEN Result(TRUE, 1)
    ELSE IF v.observed_red_eyes = 0
         THEN IF day = 1 THEN Result(TRUE, 1) ELSE Result(FALSE, 0)
    ELSE LET my_leave_day == v.observed_red_eyes + 1 IN
         IF day < my_leave_day THEN Result(FALSE, 1)
         ELSE IF day = my_leave_day THEN Result(TRUE, 1)
         ELSE Result(FALSE, 0)

PerfectInductionPolicy_decide(v, day, public_announcement_made) ==
    IF v.has_left THEN Result(FALSE, 0)
    ELSE IF ~public_announcement_made THEN Result(FALSE, 1)
    ELSE IF _is_blue(v) THEN Result(FALSE, 1)
    ELSE IF v.observed_red_eyes = 0
         THEN IF day = 1 THEN Result(TRUE, 1) ELSE Result(FALSE, 0)
    ELSE LET my_leave_day == v.observed_red_eyes + 1 IN
         IF day < my_leave_day THEN Result(FALSE, 1)
         ELSE IF day = my_leave_day THEN Result(TRUE, 1)
         ELSE Result(FALSE, 0)

NoReasoningPolicy_decide(v, day, public_announcement_made) ==
    IF v.has_left THEN Result(FALSE, 0) ELSE Result(FALSE, 1)

\* Faulty variant (sensitivity of C12): the chain already breaks at k = max_k.
BoundedInductionPolicy_decide_short(max_k, v, day, public_announcement_made) ==
    IF v.has_left THEN Result(FALSE, 0)
    ELSE IF ~public_announcement_made THEN Result(FALSE, 1)
    ELSE IF _is_blue(v) THEN Result(FALSE, 1)
    ELSE IF v.observed_red_eyes = 0
         THEN IF day = 1 /\ max_k >= 0 THEN Result(TRUE, 1) ELSE Result(FALSE, 1)
    ELSE LET k == v.observed_red_eyes
             my_leave_day == k + 1 IN
         IF k >= max_k THEN Result(FALSE, 1)
         ELSE IF day < my_leave_day THEN Result(FALSE, 1)
         ELSE IF day = my_leave_day THEN Result(TRUE, 1)
         ELSE Result(FALSE, 0)

BoundedInductionPolicy_decide(max_k, v, day, public_announcement_made) ==
    IF v.has_left THEN Result(FALSE, 0)
    ELSE IF ~public_announcement_made THEN Result(FALSE, 1)
    ELSE IF _is_blue(v) THEN Result(FALSE, 1)
    ELSE IF v.observed_red_eyes = 0
         THEN IF day = 1 /\ max_k >= 0 THEN Result(TRUE, 1) ELSE Result(FALSE, 1)
    ELSE LET k == v.observed_red_eyes
             my_leave_day == k + 1 IN
         IF k > max_k THEN Result(FALSE, 1)
         ELSE IF day < my_leave_day THEN Result(FALSE, 1)
         ELSE IF day = my_leave_day THEN Result(TRUE, 1)
         ELSE Result(FALSE, 0)

\* Faulty variant (sensitivity of C13): the cutoff acts one day late.
MaxDayReasoningPolicy_decide_late(max_day, v, day, public_announcement_made) ==
    IF v.has_left THEN Result(FALSE, 0)
    ELSE IF day > max_day + 1 THEN Result(FALSE, 1)
    ELSE PerfectInductionPolicy_decide(v, day, public_announcement_made)

\* inner is the dataclass default, PerfectInductionPolicy().
MaxDayReasoningPolicy_decide(max_day, v, day, public_announcement_made) ==
    IF v.has_left THEN Result(FALSE, 0)
    ELSE IF day > max_day THEN Result(FALSE, 1)
    ELSE PerfectInductionPolicy_decide(v, day, public_announcement_made)

\* floor(1000 * Random(f"{seed}:{id}:{day}").random()) of CPython, for the
\* seeds 0 and 123, ids 1..7 and days 1..8 (row = id, column = day).
RandomTable ==
    [ s \in {0, 123} |->
        IF s = 0
        THEN << <<754, 741, 191, 211, 112, 919, 267, 392>>,
                <<107,  85, 642, 729, 327, 522, 241,  92>>,
                <<290,  50, 385, 625,  54, 178, 168, 708>>,
                <<329, 731, 945, 144, 230, 537,  92, 292>>,
                << 49, 300,  72, 384, 414, 819, 524, 465>>,
                <<507, 925, 642, 730, 502, 504, 215, 798>>,
                <<147, 861, 200, 362,  31, 753, 293, 824>> >>
        ELSE << <<991, 473, 934, 294, 684, 946, 270, 819>>,
                << 11, 799, 818, 724, 367, 599, 951, 338>>,
                <<337, 163, 940, 709, 930, 734, 912, 108>>,
                <<775, 138, 860, 164, 467, 706, 832, 473>>,
                <<683,  64, 260, 151, 917, 992, 135, 919>>,
                <<983, 717, 617, 922, 123, 983, 928, 592>>,
                <<136, 320, 504, 191, 598, 350, 186, 532>> >> ]

RandomDraw(seed, id, day) == RandomTable[seed][id][day]

\* Faulty variant (sensitivity of C14): the comparison is inverted, the
\* mistake is made when the draw is at least mistake_rate.
FalliblePolicy_decide_inverted(mistake_rate, seed, v, day, public_announcement_made) ==
    IF v.has_left THEN Result(FALSE, 0)
    ELSE LET inner == PerfectInductionPolicy_decide(v, day, public_announcement_made) IN
         IF ~inner.leave THEN Result(FALSE, inner.logged)
         ELSE IF RandomDraw(seed, v.id, day) >= mistake_rate
              THEN Result(FALSE, inner.logged + 1)
              ELSE Result(TRUE, inner.logged)

\* Faulty variant (sensitivity of C15): mistake_rate is read as a percentage,
\* the mistake is made when 100 * rnd < mistake_rate.
FalliblePolicy_decide_percent(mistake_rate, seed, v, day, public_announcement_made) ==
    IF v.has_left THEN Result(FALSE, 0)
    ELSE LET inner == PerfectInductionPolicy_decide(v, day, public_announcement_made) IN
         IF ~inner.leave THEN Result(FALSE, inner.logged)
         ELSE IF 100 * RandomDraw(seed, v.id, day) < mistake_rate
              THEN Result(FALSE, inner.logged + 1)
              ELSE Result(TRUE, inner.logged)

\* Faulty variant (sensitivity of C16): a mistake flips the inner decision in
\* either direction.
FalliblePolicy_decide_flip(mistake_rate, seed, v, day, public_announcement_made) ==
    IF v.has_left THEN Result(FALSE, 0)
    ELSE LET inner == PerfectInductionPolicy_decide(v, day, public_announcement_made) IN
         IF RandomDraw(seed, v.id, day) < mistake_rate
         THEN Result(~inner.leave, inner.logged + 1)
         ELSE Result(inner.leave, inner.logged)

\* inner is the dataclass default, PerfectInductionPolicy().
FalliblePolicy_decide(mistake_rate, seed, v, day, public_announcement_made) ==
    IF v.has_left THEN Result(FALSE, 0)
    ELSE LET inner == PerfectInductionPolicy_decide(v, day, public_announcement_made) IN
         IF ~inner.leave THEN Result(FALSE, inner.logged)
         ELSE IF RandomDraw(seed, v.id, day) < mistake_rate
              THEN Result(FALSE, inner.logged + 1)
              ELSE Result(TRUE, inner.logged)


(******************************** texts *************************************)
\* Python's `p in r` for strings: p occurs in r as a contiguous substring.
Contains(r, p) ==
    \E k \in 0..(Len(r) - Len(p)) : \A j \in 1..Len(p) : r[k + j] = p[j]

IsSpace(c) == c \in {"sp", "nl"}

\* str.strip()
Strip(t) ==
    LET keep == { k \in 1..Len(t) : ~IsSpace(t[k]) } IN
    IF keep = {} THEN << >>
    ELSE LET lo == CHOOSE k \in keep : \A m \in keep : k <= m
             hi == CHOOSE k \in keep : \A m \in keep : k >= m
         IN SubSeq(t, lo, hi)

\* str.replace("\n", " ")
ReplaceNewlines(t) == [ k \in 1..Len(t) |-> IF t[k] = "nl" THEN "sp" ELSE t[k] ]

\* "(无理由)"
NoReasonText == << "x", "wu", "x", "x", "x" >>

neg_phrases ==
    { << "bu", "que", "ding" >>,
      << "wu", "fa", "que", "ding" >>,
      << "bu", "neng", "que", "ding" >>,
      << "mei", "fa", "que", "ding" >>,
      << "wei4", "neng", "que", "ding" >>,
      << "bu", "neng", "que", "ren" >>,
      << "wu", "fa", "que", "ren" >>,
      << "bu", "gan", "que", "ding" >>,
      << "wu", "fa", "duan", "ding" >> }

deny_red_phrases ==
    { << "bu", "shi", "hong", "yan" >>,
      << "bu", "shi", "hong", "yan", "jing" >>,
      << "wo", "bu", "shi", "hong", "yan" >>,
      << "wo", "bu", "shi", "hong", "yan", "jing" >>,
      << "bu", "ren", "wei2", "zi", "ji", "shi", "hong", "yan" >>,
      << "bu", "ren", "wei2", "zi", "ji", "shi", "hong", "yan", "jing" >>,
      << "wo", "bu", "ren", "wei2", "zi", "ji", "shi", "hong", "yan" >>,
      << "wo", "bu", "ren", "wei2", "zi", "ji", "shi", "hong", "yan", "jing" >>,
      << "que", "ding", "zi", "ji", "bu", "shi", "hong", "yan" >>,
      << "que", "ding", "zi", "ji", "bu", "shi", "hong", "yan", "jing" >>,
      << "wo", "que", "ding", "zi", "ji", "bu", "shi", "hong", "yan" >>,
      << "wo", "que", "ding", "zi", "ji", "bu", "shi", "hong", "yan", "jing" >> }

positive_red_phrases ==
    { << "wo", "shi", "hong", "yan" >>,
      << "wo", "shi", "hong", "yan", "jing" >>,
      << "wo", "ye", "shi", "hong", "yan" >>,
      << "wo", "ye", "shi", "hong", "yan", "jing" >>,
      << "zi", "ji", "shi", "hong", "yan" >>,
      << "zi", "ji", "shi", "hong", "yan", "jing" >> }

certainty_markers ==
    { << "wo", "que", "ding" >>,
      << "neng", "que", "ding" >>,
      << "ke", "yi", "que", "ding" >>,
      << "wo", "neng", "que", "ding" >>,
      << "wo", "yi3", "que", "ding" >> }

\* Faulty variant (sensitivity of C11): a positive phrase together with a
\* certainty marker is accepted before the denial phrases are looked for.
_reason_implies_certain_red_eye_eager(reason) ==
    LET r == Strip(reason) IN
    IF r = << >> THEN FALSE
    ELSE IF \E p \in neg_phrases : Contains(r, p) THEN FALSE
    ELSE IF /\ \E p \in positive_red_phrases : Contains(r, p)
            /\ \E m \in certainty_markers : Contains(r, m) THEN TRUE
    ELSE FALSE

_reason_implies_certain_red_eye(reason) ==
    LET r == Strip(reason) IN
    IF r = << >> THEN FALSE
    ELSE IF \E p \in neg_phrases : Contains(r, p) THEN FALSE
    ELSE IF \E p \in deny_red_phrases : Contains(r, p) THEN FALSE
    ELSE IF ~(\E p \in positive_red_phrases : Contains(r, p)) THEN FALSE
    ELSE IF ~(\E m \in certainty_markers : Contains(r, m)) THEN FALSE
    ELSE TRUE

\* Faulty variant (sensitivity of C7): the threshold itself does not count.
_should_force_leave_strict(leave, confidence_red, reason, threshold) ==
    IF confidence_red # None
    THEN IF confidence_red[1] > threshold /\ ~leave
         THEN << TRUE, TRUE >>
         ELSE << leave, FALSE >>
    ELSE IF _reason_implies_certain_red_eye(reason) /\ ~leave
         THEN << TRUE, TRUE >>
         ELSE << leave, FALSE >>

\* Faulty variant (sensitivity of C28): the text heuristic is consulted
\* whether or not a confidence is given.
_should_force_leave_either(leave, confidence_red, reason, threshold) ==
    IF /\ ~leave
       /\ \/ confidence_red # None /\ confidence_red[1] >= threshold
          \/ _reason_implies_certain_red_eye(reason)
    THEN << TRUE, TRUE >>
    ELSE << leave, FALSE >>

\* Returns (final_leave, forced).
_should_force_leave(leave, confidence_red, reason, threshold) ==
    IF confidence_red # None
    THEN IF confidence_red[1] >= threshold /\ ~leave
         THEN << TRUE, TRUE >>
         ELSE << leave, FALSE >>
    ELSE IF _reason_implies_certain_red_eye(reason) /\ ~leave
         THEN << TRUE, TRUE >>
         ELSE << leave, FALSE >>


(*********************** External-Delegate policy ***************************)
\* The texts of _standard_proof_public_summary.  Runs of characters that take
\* part in no phrase of the four lists are shortened to one "x".
SummaryHasLeft == << "wo", "yi3", "x" >>
SummaryNoAnnouncement ==
    << "x", "wo", "wu", "fa", "que", "ding", "zi", "ji", "shi", "hong", "yan", "x" >>
SummaryLeaveBase ==
    << "x", "wo", "que", "ding", "zi", "ji", "shi", "hong", "yan", "x" >>
SummaryLeaveStep ==
    << "x", "wo", "bu", "shi", "hong", "yan", "x",
       "wo", "que", "ding", "zi", "ji", "ye", "shi", "hong", "yan", "x" >>
SummaryStayBase == << "x", "wu", "fa", "x", "bu", "x" >>
SummaryStayStep ==
    << "x", "neng", "que", "ding", "zi", "ji", "shi", "hong", "yan", "x",
       "wo", "x", "bu", "neng", "que", "ding", "x", "yi", "bu", "x" >>

\* Faulty variant (sensitivity of C10): the fallback keeps leaving after the
\* day the induction closes (day >= k + 1 instead of day = k + 1).
_standard_proof_public_summary_late(v, day, public_announcement_made) ==
    LET observed == v.observed_red_eyes
        should_leave == ~_is_blue(v) /\ day >= observed + 1
    IN
    IF v.has_left THEN << FALSE, Some(0), SummaryHasLeft >>
    ELSE IF ~public_announcement_made THEN << FALSE, Some(0), SummaryNoAnnouncement >>
    ELSE IF should_leave
         THEN IF observed = 0 THEN << TRUE, Some(100), SummaryLeaveBase >>
              ELSE << TRUE, Some(100), SummaryLeaveStep >>
    ELSE IF observed = 0 THEN << FALSE, Some(0), SummaryStayBase >>
    ELSE << FALSE, Some(0), SummaryStayStep >>

\* Returns (leave, confidence_red, public_reason); key_points are narrative.
_standard_proof_public_summary(v, day, public_announcement_made) ==
    LET observed == v.observed_red_eyes
        should_leave == _perfect_induction_decide_no_log(v, day, public_announcement_made)
    IN
    IF v.has_left THEN << FALSE, Some(0), SummaryHasLeft >>
    ELSE IF ~public_announcement_made THEN << FALSE, Some(0), SummaryNoAnnouncement >>
    ELSE IF should_leave
         THEN IF observed = 0 THEN << TRUE, Some(100), SummaryLeaveBase >>
              ELSE << TRUE, Some(100), SummaryLeaveStep >>
    ELSE IF observed = 0 THEN << FALSE, Some(0), SummaryStayBase >>
    ELSE << FALSE, Some(0), SummaryStayStep >>

\* float(confidence_raw) clamped to [0.0, 1.0]
ClampConfidence(c) == IF c < 0 THEN 0 ELSE IF c > 100 THEN 100 ELSE c

AlignmentOn(pol) == pol.align_to_standard_proof \/ pol.style = "absolute_rational"

\* Faulty variant (sensitivity of C17): the API key is looked up before the
\* departed flag.
OpenAIReasoningPolicy_decide_keyfirst(pol, v, day, public_announcement_made, reply, key) ==
    IF ~key THEN Raise
    ELSE IF v.has_left THEN Result(FALSE, 0)
    ELSE
    LET expected_leave ==
            IF AlignmentOn(pol)
            THEN Some(_perfect_induction_decide_no_log(v, day, public_announcement_made))
            ELSE None
        parsed_ok == reply.kind = "json"
        fallback == _standard_proof_public_summary(v, day, public_announcement_made)
        leave0 == IF parsed_ok THEN reply.leave ELSE fallback[1]
        conf0 == IF parsed_ok
                 THEN IF reply.confidence_red = None THEN None
                      ELSE Some(ClampConfidence(reply.confidence_red[1]))
                 ELSE fallback[2]
        reason0 == IF parsed_ok THEN reply.public_reason ELSE fallback[3]
        reason1 == ReplaceNewlines(Strip(reason0))
        public_reason == IF reason1 = << >> THEN NoReasonText ELSE reason1
        leave1 == IF expected_leave # None /\ leave0 # expected_leave[1]
                  THEN expected_leave[1] ELSE leave0
        conf1 == IF expected_leave # None /\ leave1 THEN Some(100) ELSE conf0
        enforced == _should_force_leave(leave1, conf1, public_reason,
                                        pol.certainty_threshold)
    IN [ leave |-> enforced[1], logged |-> 1, raised |-> FALSE, requested |-> TRUE,
         parsed_confidence |-> conf0, confidence_red |-> conf1,
         forced |-> enforced[2] ]

\* Faulty variant (sensitivity of C21): without an API key the decision is
\* silently the fallback summary's instead of an error.
OpenAIReasoningPolicy_decide_defaulted(pol, v, day, public_announcement_made, reply, key) ==
    IF v.has_left THEN Result(FALSE, 0)
    ELSE IF ~key
    THEN LET summary == _standard_proof_public_summary(v, day, public_announcement_made) IN
         [ Result(summary[1], 1) EXCEPT !.parsed_confidence = summary[2],
                                        !.confidence_red = summary[2] ]
    ELSE
    LET expected_leave ==
            IF AlignmentOn(pol)
            THEN Some(_perfect_induction_decide_no_log(v, day, public_announcement_made))
            ELSE None
        parsed_ok == reply.kind = "json"
        fallback == _standard_proof_public_summary(v, day, public_announcement_made)
        leave0 == IF parsed_ok THEN reply.leave ELSE fallback[1]
        conf0 == IF parsed_ok
                 THEN IF reply.confidence_red = None THEN None
                      ELSE Some(ClampConfidence(reply.confidence_red[1]))
                 ELSE fallback[2]
        reason0 == IF parsed_ok THEN reply.public_reason ELSE fallback[3]
        reason1 == ReplaceNewlines(Strip(reason0))
        public_reason == IF reason1 = << >> THEN NoReasonText ELSE reason1
        leave1 == IF expected_leave # None /\ leave0 # expected_leave[1]
                  THEN expected_leave[1] ELSE leave0
        conf1 == IF expected_leave # None /\ leave1 THEN Some(100) ELSE conf0
        enforced == _should_force_leave(leave1, conf1, public_reason,
                                        pol.certainty_threshold)
    IN [ leave |-> enforced[1], logged |-> 1, raised |-> FALSE, requested |-> TRUE,
         parsed_confidence |-> conf0, confidence_red |-> conf1,
         forced |-> enforced[2] ]

\* reply is what the remote call and the parse produce:
\*   kind "error"    _openai_chat_completions raised (every attempt failed)
\*   kind "nojson"   _extract_first_json_object raised
\*   kind "badfield" the object was found but float(confidence_raw) raised
\*   kind "json"     parsed: leave, confidence_red (None if absent), public_reason
OpenAIReasoningPolicy_decide(pol, v, day, public_announcement_made, reply, key) ==
    IF v.has_left THEN Result(FALSE, 0)
    ELSE IF ~key THEN Raise
    ELSE
    LET expected_leave ==
            IF AlignmentOn(pol)
            THEN Some(_perfect_induction_decide_no_log(v, day, public_announcement_made))
            ELSE None
        parsed_ok == reply.kind = "json"
        fallback == _standard_proof_public_summary(v, day, public_announcement_made)
        leave0 == IF parsed_ok THEN reply.leave ELSE fallback[1]
        conf0 == IF parsed_ok
                 THEN IF reply.confidence_red = None THEN None
                      ELSE Some(ClampConfidence(reply.confidence_red[1]))
                 ELSE fallback[2]
        reason0 == IF parsed_ok THEN reply.public_reason ELSE fallback[3]
        reason1 == ReplaceNewlines(Strip(reason0))
        public_reason == IF reason1 = << >> THEN NoReasonText ELSE reason1
        leave1 == IF expected_leave # None /\ leave0 # expected_leave[1]
                  THEN expected_leave[1] ELSE leave0
        conf1 == IF expected_leave # None /\ leave1 THEN Some(100) ELSE conf0
        enforced == _should_force_leave(leave1, conf1, public_reason,
                                        pol.certainty_threshold)
    IN [ leave |-> enforced[1], logged |-> 1, raised |-> FALSE, requested |-> TRUE,
         parsed_confidence |-> conf0, confidence_red |-> conf1,
         forced |-> enforced[2] ]

(************************** policy dispatch *********************************)
Styles == {"absolute_rational", "rational", "ordinary", "social"}

Policy(kind, max_k, max_day, mistake_rate, seed, style, align, threshold) ==
    [ kind |-> kind, max_k |-> max_k, max_day |-> max_day,
      mistake_rate |-> mistake_rate, seed |-> seed, style |-> style,
      align_to_standard_proof |-> align, certainty_threshold |-> threshold ]

PerfectInductionPolicy == Policy("PerfectInduction", 0, 0, 0, 0, "rational", FALSE, 0)
NoReasoningPolicy == Policy("NoReasoning", 0, 0, 0, 0, "rational", FALSE, 0)
BoundedInductionPolicy(max_k) == Policy("BoundedInduction", max_k, 0, 0, 0, "rational", FALSE, 0)
MaxDayReasoningPolicy(max_day) == Policy("MaxDay", 0, max_day, 0, 0, "rational", FALSE, 0)
FalliblePolicy(mistake_rate, seed) == Policy("Fallible", 0, 0, mistake_rate, seed, "rational", FALSE, 0)
OpenAIReasoningPolicy(style, align, threshold) ==
    Policy("OpenAI", 0, 0, 0, 0, style, align, threshold)

\* web_server._build_reasoning_policy: PolicyByVillagerType with
\* mapping {"dummy": PerfectInduction, "openai": OpenAI(style, align iff
\* style is absolute_rational)} and default PerfectInduction.
_build_reasoning_policy(openai_style) ==
    Policy("ByVillagerType", 0, 0, 0, 0, openai_style,
           openai_style = "absolute_rational", DefaultCertaintyThreshold)

PolicyByVillagerType_decide(pol, v, day, public_announcement_made, reply, key) ==
    IF v.villager_type = "openai"
    THEN OpenAIReasoningPolicy_decide(
             OpenAIReasoningPolicy(pol.style, pol.align_to_standard_proof,
                                   pol.certainty_threshold),
             v, day, public_announcement_made, reply, key)
    ELSE PerfectInductionPolicy_decide(v, day, public_announcement_made)

\* reasoning_policy.decide(villager, day, announcement_made)
Decide(pol, v, day, public_announcement_made, reply, key) ==
    CASE pol.kind = "PerfectInduction" ->
            PerfectInductionPolicy_decide(v, day, public_announcement_made)
      [] pol.kind = "NoReasoning" ->
            NoReasoningPolicy_decide(v, day, public_announcement_made)
      [] pol.kind = "BoundedInduction" ->
            BoundedInductionPolicy_decide(pol.max_k, v, day, public_announcement_made)
      [] pol.kind = "MaxDay" ->
            MaxDayReasoningPolicy_decide(pol.max_day, v, day, public_announcement_made)
      [] pol.kind = "Fallible" ->
            FalliblePolicy_decide(pol.mistake_rate, pol.seed, v, day,
                                  public_announcement_made)
      [] pol.kind = "OpenAI" ->
            OpenAIReasoningPolicy_decide(pol, v, day, public_announcement_made, reply, key)
      [] pol.kind = "ByVillagerType" ->
            PolicyByVillagerType_decide(pol, v, day, public_announcement_made, reply, key)

\* Whether decide on v issues a remote request under pol.
UsesRemote(pol, v) ==
    \/ pol.kind = "OpenAI"
    \/ pol.kind = "ByVillagerType" /\ v.villager_type = "openai"


\* decide issues a remote request: the policy governing v is the
\* External-Delegate one, v is present and an API key is configured.
IssuesRequest(pol, v, key) == UsesRemote(pol, v) /\ ~v.has_left /\ key

(***************************** remote replies *******************************)
\* "我确定我是红眼，所以今晚离开"
ReasonCertainRed ==
    << "wo", "que", "ding", "wo", "shi", "hong", "yan", "x", "x", "yi", "x", "x", "x", "x" >>
\* "我确定自己不是红眼，所以不走"
ReasonDenial ==
    << "wo", "que", "ding", "zi", "ji", "bu", "shi", "hong", "yan", "x", "x", "yi", "bu", "x" >>
\* "我无法确定自己是不是红眼"
ReasonHedged ==
    << "wo", "wu", "fa", "que", "ding", "zi", "ji", "shi", "bu", "shi", "hong", "yan" >>
\* "我是红眼，但我也可能错"
ReasonNoMarker ==
    << "wo", "shi", "hong", "yan", "x", "x", "wo", "ye", "ke", "neng", "x" >>
\* " \n" (blank)
ReasonBlank == << "sp", "nl" >>

Reasons == { ReasonCertainRed, ReasonDenial, ReasonHedged, ReasonNoMarker, ReasonBlank }

\* confidence_red values of a reply, in hundredths (out-of-range ones included)
Confidences == { 0 - 5, 0, 50, 94, 95, 100, 120 }

FailedReply(kind) ==
    [ kind |-> kind, leave |-> FALSE, confidence_red |-> None, public_reason |-> << >> ]

JsonReplies ==
    [ kind : {"json"}, leave : BOOLEAN,
      confidence_red : {None} \cup { Some(c) : c \in Confidences },
      public_reason : Reasons ]

Replies == { FailedReply("error"), FailedReply("nojson"), FailedReply("badfield") }
           \cup JsonReplies

\* The replies drawn inside a village run: every kind of failure, both leave
\* values, confidence absent / below / at the threshold, a reason the text
\* heuristic accepts and one it rejects.
VillageReplies ==
    { FailedReply("error"), FailedReply("nojson") }
    \cup [ kind : {"json"}, leave : BOOLEAN,
           confidence_red : { None, Some(50), Some(95) },
           public_reason : { ReasonCertainRed, ReasonHedged } ]

(******************************* setup *************************************)
Seeds == {0, 123}
MistakeRates == {0, 500, 1000}
VillageStyles == {"absolute_rational", "social"}

\* Policies that never issue a remote request.
LocalPolicies ==
    { PerfectInductionPolicy, NoReasoningPolicy }
    \cup { BoundedInductionPolicy(k) : k \in (0 - 1)..MaxK }
    \cup { MaxDayReasoningPolicy(d) : d \in 1..MaxCutoff }
    \cup { FalliblePolicy(r, sd) : r \in MistakeRates, sd \in Seeds }

RemotePolicies ==
    { OpenAIReasoningPolicy(st, al, DefaultCertaintyThreshold) :
        st \in VillageStyles, al \in BOOLEAN }

VillagerModes == {"all_openai", "all_dummy", "mixed_ends"}

_build_villager_types(num_red, num_blue, mode) ==
    LET total == num_red + num_blue IN
    IF total <= 0 THEN << >>
    ELSE IF mode = "all_openai" THEN [ k \in 1..total |-> "openai" ]
    ELSE IF mode = "all_dummy" THEN [ k \in 1..total |-> "dummy" ]
    ELSE [ k \in 1..total |-> IF k = 1 \/ k = total THEN "openai" ELSE "dummy" ]

\* create_village(num_red, num_blue, villager_types=...), villager_type left
\* at its default "dummy".  villager_types is None or Some(list).  The only
\* test is the one on the list's length; range(n) of a negative n is empty, so
\* the loops add max(num_red, 0) red and then max(num_blue, 0) blue villagers,
\* ids 1, 2, ... in insertion order (Village.add_villager), and
\* villager_types[idx] past the end of the list raises IndexError.  Then
\* Village.initialize_observations.  Gives the exception raised ("none" if
\* none) and the villagers of the village returned.
create_village(num_red, num_blue, villager_types) ==
    LET total == num_red + num_blue
        reds == IF num_red > 0 THEN num_red ELSE 0
        blues == IF num_blue > 0 THEN num_blue ELSE 0
        added == [ k \in 1..(reds + blues) |->
                     NewVillager(k, IF k <= reds THEN "RED" ELSE "BLUE",
                                 IF villager_types = None THEN "dummy"
                                 ELSE villager_types[1][k]) ]
    IN IF villager_types # None /\ Len(villager_types[1]) # total
       THEN [ raised |-> "ValueError", villagers |-> << >> ]
       ELSE IF villager_types # None /\ reds + blues > Len(villager_types[1])
       THEN [ raised |-> "IndexError", villagers |-> << >> ]
       ELSE [ raised |-> "none",
              villagers |-> [ k \in 1..Len(added) |-> Observe(added[k], added) ] ]

InitVillage(vs, pol) ==
    /\ villagers = vs
    /\ reasoning_policy = pol
    /\ announcement_made = FALSE
    /\ current_day = 0
    /\ knowledge_level = 0
    /\ left_yesterday_count = 0
    /\ pc = "idle"
    /\ i = 0
    /\ leaving_today = << >>
    /\ raised = FALSE
    /\ h_announce_day = None

NoCall == [ made |-> FALSE ]

\* web_server._AppState(): no run, the lock free (None, or the id of the
\* request that holds it).
_AppState ==
    [ village |-> None, num_red |-> 0, num_blue |-> 0, reasoning_policy |-> None,
      lock |-> None ]

\* The hosting service is not running.
NoServer ==
    /\ APP_STATE = _AppState
    /\ heap = << >>
    /\ requests = << >>

Populations ==
    { p \in (0..MaxVillagers) \X (0..MaxVillagers) : p[1] + p[2] <= MaxVillagers }

\* create_village(num_red, num_blue, reasoning_policy=pol) with the default
\* villager_type "dummy", or web_server's _api_init (policy and types built
\* from openaiStyle and villagerMode).
Init ==
    /\ api_key \in BOOLEAN
    /\ call = NoCall
    /\ NoServer
    /\ \E p \in Populations :
         \/ \E pol \in LocalPolicies :
              InitVillage(create_village(p[1], p[2], None).villagers, pol)
         \/ /\ p[1] + p[2] <= MaxRemote
            /\ \E pol \in RemotePolicies :
                 InitVillage(create_village(p[1], p[2], None).villagers, pol)
         \/ /\ p[1] + p[2] <= MaxRemote
            /\ \E st \in VillageStyles, mode \in VillagerModes :
                 InitVillage(create_village(p[1], p[2],
                                 Some(_build_villager_types(p[1], p[2], mode))).villagers,
                             _build_reasoning_policy(st))

(******************************* Village ***********************************)
get_red_eye_count == Cardinality({ k \in 1..Len(villagers) : villagers[k].eye_color = "RED" })

\* Faulty variant (sensitivity of C25): a second announcement takes the first
\* one back.
make_announcement_toggle ==
    /\ pc = "idle"
    /\ announcement_made' = ~announcement_made
    /\ knowledge_level' = IF announcement_made THEN 0 ELSE 0 - 1
    /\ h_announce_day' = IF h_announce_day = None THEN Some(current_day)
                         ELSE h_announce_day
    /\ UNCHANGED << villagers, reasoning_policy, current_day, left_yesterday_count,
                    api_key, pc, i, leaving_today, raised, call, server_vars >>

make_announcement ==
    /\ pc = "idle"
    /\ announcement_made' = TRUE
    /\ knowledge_level' = 0 - 1
    /\ h_announce_day' = IF h_announce_day = None THEN Some(current_day)
                         ELSE h_announce_day
    /\ UNCHANGED << villagers, reasoning_policy, current_day, left_yesterday_count,
                    api_key, pc, i, leaving_today, raised, call, server_vars >>

\* Faulty variant (sensitivity of C29): the two group statistics are given
\* each other's value.
RefreshRound_swapped(vs, yesterday) ==
    LET observed == [ k \in 1..Len(vs) |->
                        IF vs[k].has_left THEN vs[k] ELSE Observe(vs[k], vs) ]
        total_left_now == Cardinality({ k \in 1..Len(vs) : observed[k].has_left })
    IN [ k \in 1..Len(vs) |->
           IF observed[k].has_left THEN observed[k]
           ELSE [ observed[k] EXCEPT !.observed_left_yesterday = total_left_now,
                                     !.observed_left_total = yesterday ] ]

\* simulate_day, lines 225-242: the day counter, the observation refresh, the
\* group statistics and the empty leaving_today list.  observe reads only id,
\* eye_color and has_left, none of which the refresh loops write, so the loops
\* are maps over the list.
RefreshRound(vs, yesterday) ==
    LET observed == [ k \in 1..Len(vs) |->
                        IF vs[k].has_left THEN vs[k] ELSE Observe(vs[k], vs) ]
        total_left_now == Cardinality({ k \in 1..Len(vs) : observed[k].has_left })
    IN [ k \in 1..Len(vs) |->
           IF observed[k].has_left THEN observed[k]
           ELSE [ observed[k] EXCEPT !.observed_left_yesterday = yesterday,
                                     !.observed_left_total = total_left_now ] ]

\* Faulty variant (sensitivity of C34): the day counter is advanced only once
\* the announcement has been made.
simulate_day_begin_gated ==
    /\ pc = "idle"
    /\ current_day < MaxDays
    /\ current_day' = IF announcement_made THEN current_day + 1 ELSE current_day
    /\ villagers' = RefreshRound(villagers, left_yesterday_count)
    /\ leaving_today' = << >>
    /\ i' = 1
    /\ pc' = "deciding"
    /\ raised' = FALSE
    /\ UNCHANGED << reasoning_policy, announcement_made, knowledge_level,
                    left_yesterday_count, api_key, h_announce_day, call, server_vars >>

simulate_day_begin ==
    /\ pc = "idle"
    /\ current_day < MaxDays
    /\ current_day' = current_day + 1
    /\ villagers' = RefreshRound(villagers, left_yesterday_count)
    /\ leaving_today' = << >>
    /\ i' = 1
    /\ pc' = "deciding"
    /\ raised' = FALSE
    /\ UNCHANGED << reasoning_policy, announcement_made, knowledge_level,
                    left_yesterday_count, api_key, h_announce_day, call, server_vars >>

\* Faulty variant (sensitivity of C4): a villager that decides to leave is
\* marked as departed inside the loop instead of after it.
DecideIteration_eager(vs, leaving, pol, day, announced, k, reply, key) ==
    IF vs[k].has_left
    THEN [ villagers |-> vs, leaving_today |-> leaving, raised |-> FALSE ]
    ELSE LET d == Decide(pol, vs[k], day, announced, reply, key)
             logged == [ vs EXCEPT ![k].reasoning_log = @ + d.logged ] IN
         [ villagers |-> IF d.leave /\ ~d.raised
                         THEN [ logged EXCEPT ![k] = Leave(@, day) ] ELSE logged,
           leaving_today |-> IF d.leave /\ ~d.raised THEN Append(leaving, k) ELSE leaving,
           raised |-> d.raised ]

\* Faulty variant (sensitivity of C3): as above, and the villagers still
\* present observe again before the next one decides.
DecideIteration_reobserve(vs, leaving, pol, day, announced, k, reply, key) ==
    LET eager == DecideIteration_eager(vs, leaving, pol, day, announced, k, reply, key) IN
    [ eager EXCEPT !.villagers =
        [ j \in 1..Len(vs) |->
            IF eager.villagers[j].has_left THEN eager.villagers[j]
            ELSE Observe(eager.villagers[j], eager.villagers) ] ]

\* Faulty variant (sensitivity of C32): a decision to leave is stamped on the
\* villager by the decide call itself.
DecideIteration_stamping(vs, leaving, pol, day, announced, k, reply, key) ==
    IF vs[k].has_left
    THEN [ villagers |-> vs, leaving_today |-> leaving, raised |-> FALSE ]
    ELSE LET d == Decide(pol, vs[k], day, announced, reply, key) IN
         [ villagers |-> [ vs EXCEPT ![k].reasoning_log = @ + d.logged,
                                     ![k].left_on_day =
                                         IF d.leave /\ ~d.raised THEN Some(day) ELSE @ ],
           leaving_today |-> IF d.leave /\ ~d.raised THEN Append(leaving, k) ELSE leaving,
           raised |-> d.raised ]

\* One iteration of the decide loop (lines 243-251) on villager k: the new
\* villager list, the new leaving_today and whether decide raised.
DecideIteration(vs, leaving, pol, day, announced, k, reply, key) ==
    IF vs[k].has_left
    THEN [ villagers |-> vs, leaving_today |-> leaving, raised |-> FALSE ]
    ELSE LET d == Decide(pol, vs[k], day, announced, reply, key) IN
         [ villagers |-> [ vs EXCEPT ![k].reasoning_log = @ + d.logged ],
           leaving_today |-> IF d.leave /\ ~d.raised THEN Append(leaving, k) ELSE leaving,
           raised |-> d.raised ]

\* Faulty variant (sensitivity of C38): an exception of decide takes the day
\* counter back.
simulate_day_decide_rollback ==
    /\ pc = "deciding"
    /\ i <= Len(villagers)
    /\ \E reply \in IF IssuesRequest(reasoning_policy, villagers[i], api_key)
                    THEN VillageReplies ELSE { FailedReply("error") } :
         LET it == DecideIteration(villagers, leaving_today, reasoning_policy,
                                   current_day, announcement_made, i, reply, api_key)
         IN /\ villagers' = it.villagers
            /\ raised' = it.raised
            /\ IF it.raised
               THEN /\ pc' = "idle"
                    /\ i' = 0
                    /\ leaving_today' = << >>
                    /\ current_day' = current_day - 1
               ELSE /\ pc' = "deciding"
                    /\ i' = i + 1
                    /\ leaving_today' = it.leaving_today
                    /\ current_day' = current_day
    /\ UNCHANGED << reasoning_policy, announcement_made, knowledge_level,
                    left_yesterday_count, api_key, h_announce_day, call, server_vars >>

simulate_day_decide ==
    /\ pc = "deciding"
    /\ i <= Len(villagers)
    /\ \E reply \in IF IssuesRequest(reasoning_policy, villagers[i], api_key)
                    THEN VillageReplies ELSE { FailedReply("error") } :
         LET it == DecideIteration(villagers, leaving_today, reasoning_policy,
                                   current_day, announcement_made, i, reply, api_key)
         IN /\ villagers' = it.villagers
            /\ raised' = it.raised
            /\ IF it.raised
               THEN /\ pc' = "idle"
                    /\ i' = 0
                    /\ leaving_today' = << >>
               ELSE /\ pc' = "deciding"
                    /\ i' = i + 1
                    /\ leaving_today' = it.leaving_today
    /\ UNCHANGED << reasoning_policy, announcement_made, current_day, knowledge_level,
                    left_yesterday_count, api_key, h_announce_day, call, server_vars >>

\* Faulty variant (sensitivity of C5): every villager that is gone by the end
\* of the round, not only those of leaving_today, is stamped with the day.
ApplyLeaving_restamp(vs, leaving, day) ==
    [ k \in 1..Len(vs) |->
        IF vs[k].has_left \/ \E j \in 1..Len(leaving) : leaving[j] = k
        THEN Leave(vs[k], day) ELSE vs[k] ]

\* Faulty variant (sensitivity of C33): the villagers that leave are taken
\* off the list.
ApplyLeaving_removing(vs, leaving, day) ==
    SelectSeq(vs, LAMBDA v : ~ \E j \in 1..Len(leaving) : leaving[j] = v.id)

\* Lines 253-256: villager.leave(current_day) for every member of leaving_today.
ApplyLeaving(vs, leaving, day) ==
    [ k \in 1..Len(vs) |->
        IF \E j \in 1..Len(leaving) : leaving[j] = k THEN Leave(vs[k], day) ELSE vs[k] ]

simulate_day_end ==
    /\ pc = "deciding"
    /\ i > Len(villagers)
    /\ villagers' = ApplyLeaving(villagers, leaving_today, current_day)
    /\ left_yesterday_count' = Len(leaving_today)
    /\ pc' = "idle"
    /\ i' = 0
    /\ leaving_today' = << >>
    /\ UNCHANGED << reasoning_policy, announcement_made, current_day, knowledge_level,
                    api_key, raised, h_announce_day, call, server_vars >>

\* The decide loop of simulate_day run over the villagers in the given order,
\* replies[k] being the remote reply to villager k's request; an exception
\* ends the loop.  The code's order is 1..Len(villagers).
RECURSIVE DecideLoop(_, _, _, _, _, _, _, _)
DecideLoop(vs, leaving, pol, day, announced, order, replies, key) ==
    IF order = << >>
    THEN [ villagers |-> vs, leaving_today |-> leaving, raised |-> FALSE ]
    ELSE LET it == DecideIteration(vs, leaving, pol, day, announced, Head(order),
                                   replies[Head(order)], key) IN
         IF it.raised THEN it
         ELSE DecideLoop(it.villagers, it.leaving_today, pol, day, announced,
                         Tail(order), replies, key)

\* simulate_day after its refresh (lines 241-264), on the refreshed list vs:
\* what the round leaves in villagers and left_yesterday_count.
RoundAfterRefresh(vs, order, replies) ==
    LET day == current_day + 1
        loop == DecideLoop(vs, << >>, reasoning_policy, day, announcement_made,
                           order, replies, api_key)
    IN IF loop.raised
       THEN [ villagers |-> loop.villagers,
              left_yesterday_count |-> left_yesterday_count ]
       ELSE [ villagers |-> ApplyLeaving(loop.villagers, loop.leaving_today, day),
              left_yesterday_count |-> Len(loop.leaving_today) ]

\* simulate_day as a whole, from the current (idle) state.
RoundOutcome(order, replies) ==
    RoundAfterRefresh(RefreshRound(villagers, left_yesterday_count), order, replies)

Next ==
    \/ make_announcement
    \/ simulate_day_begin
    \/ simulate_day_decide
    \/ simulate_day_end

Spec == Init /\ [][Next]_vars


(****************** a village with a caller's list of types *****************)
\* create_village(num_red, num_blue, reasoning_policy=PolicyByVillagerType(...),
\* villager_types=types) for any list of the two type tags, then the village's
\* operations.  Without an API key no request is issued, so the population is
\* bounded by MaxVillagers; with one, by MaxRemote.
InitTyped ==
    /\ api_key \in BOOLEAN
    /\ call = NoCall
    /\ NoServer
    /\ \E p \in Populations, st \in VillageStyles :
       \E types \in [ 1..(p[1] + p[2]) -> {"dummy", "openai"} ] :
         /\ api_key => p[1] + p[2] <= MaxRemote
         /\ InitVillage(create_village(p[1], p[2], Some(types)).villagers,
                        _build_reasoning_policy(st))

SpecTyped == InitTyped /\ [][Next]_vars


(********************* decide as a function of its inputs *******************)
\* One decide call on an arbitrary villager, day, announcement flag, policy
\* and remote reply; `call` records the inputs and the result.
MaxObserved == 2
MaxCallDay == 3
Thresholds == {50, 95, 100}

VillagerStates ==
    { [ NewVillager(1, eye, ty) EXCEPT !.observed_red_eyes = obs,
                                       !.has_left = left,
                                       !.left_on_day = IF left THEN Some(1) ELSE None ] :
        eye \in {"RED", "BLUE"}, ty \in {"dummy", "openai"},
        obs \in 0..MaxObserved, left \in BOOLEAN }

CallPolicies ==
    LocalPolicies
    \cup { OpenAIReasoningPolicy(st, al, th) :
             st \in Styles, al \in BOOLEAN, th \in Thresholds }
    \cup { _build_reasoning_policy(st) : st \in Styles }

NoResult == [ leave |-> FALSE, logged |-> 0, raised |-> FALSE, requested |-> FALSE,
              parsed_confidence |-> None, confidence_red |-> None, forced |-> FALSE ]

InitDecide ==
    /\ api_key \in BOOLEAN
    /\ NoServer
    /\ InitVillage(<< >>, PerfectInductionPolicy)
    /\ \E v \in VillagerStates, day \in 1..MaxCallDay, announced \in BOOLEAN,
          pol \in CallPolicies :
         \E reply \in IF IssuesRequest(pol, v, api_key)
                      THEN Replies ELSE { FailedReply("error") } :
           call = [ made |-> FALSE, policy |-> pol, villager |-> v, day |-> day,
                    announced |-> announced, reply |-> reply, key |-> api_key,
                    result |-> NoResult ]

decide_call ==
    /\ ~call.made
    /\ call' = [ call EXCEPT
                   !.made = TRUE,
                   !.result = Decide(call.policy, call.villager, call.day,
                                     call.announced, call.reply, call.key) ]
    /\ UNCHANGED << villagers, reasoning_policy, announcement_made, current_day,
                    knowledge_level, left_yesterday_count, api_key, pc, i,
                    leaving_today, raised, h_announce_day, server_vars >>

NextDecide == decide_call

SpecDecide == InitDecide /\ [][NextDecide]_vars


(**************** the text heuristic as a function of its input *************)
\* One call of _reason_implies_certain_red_eye on a justification text made
\* of at most MaxFragments pieces; `call` records the text and the result.
MaxFragments == 3

\* Pieces of a justification: whole phrases of the four lists, and the parts
\* ("wo", "bu", "wu fa", "shi hong yan") that build or break a phrase when
\* they meet a neighbour, a character outside every list, and a blank.
Fragments ==
    { << "wo" >>, << "bu" >>, << "wu", "fa" >>,
      << "shi", "hong", "yan" >>,
      << "wo", "shi", "hong", "yan" >>,
      << "zi", "ji", "shi", "hong", "yan" >>,
      << "bu", "shi", "hong", "yan" >>,
      << "wo", "que", "ding" >>,
      << "neng", "que", "ding" >>,
      << "x" >>, << "sp" >> }

RECURSIVE Flatten(_)
Flatten(fs) == IF fs = << >> THEN << >> ELSE Head(fs) \o Flatten(Tail(fs))

ReasonTexts ==
    { Flatten(fs) : fs \in UNION { [ 1..n -> Fragments ] : n \in 0..MaxFragments } }

InitReason ==
    /\ api_key = FALSE
    /\ NoServer
    /\ InitVillage(<< >>, PerfectInductionPolicy)
    /\ \E reason \in ReasonTexts :
         call = [ made |-> FALSE, reason |-> reason, result |-> FALSE ]

reason_call ==
    /\ ~call.made
    /\ call' = [ call EXCEPT !.made = TRUE,
                             !.result = _reason_implies_certain_red_eye(call.reason) ]
    /\ UNCHANGED << villagers, reasoning_policy, announcement_made, current_day,
                    knowledge_level, left_yesterday_count, api_key, pc, i,
                    leaving_today, raised, h_announce_day, server_vars >>

NextReason == reason_call

SpecReason == InitReason /\ [][NextReason]_vars


(***************************** hosting service ******************************)
\* web_server: ThreadingHTTPServer runs every request in a thread of its own.
\* A request is cut where another thread can observe or change what it works
\* on: APP_STATE (fields village, num_red, num_blue, reasoning_policy and the
\* lock) and the Village objects, kept in heap and referred to by index.
\* Village.simulate_day is cut after its refresh and after its decide loop.
\* The requests come from two clients (browser tabs), each of which waits
\* for the answer to its request before it posts the next one; MaxRequests is
\* the number of requests posted in a run of the service.
MaxRequests == 3
Clients == {"a", "b"}

PopulationCap == 200
RunAllCapUnannounced == 20
RunAllCapFloor == 5
RunAllCapSlack == 10

Threads == 1..MaxRequests

MutatingOps == {"announce", "next", "run_all", "reset"}
Ops == {"init"} \cup MutatingOps

ServerModes == {"all_dummy", "mixed_ends"}
ServerStyles == {"social"}

\* The JSON bodies of POST /api/init: a negative count, populations of at
\* most two villagers, and a numRed one above the cap.
InitBodies ==
    [ numRed : {0 - 1, 0, 1, PopulationCap + 1},
      numBlue : {0 - 1, 0, 1},
      villagerMode : ServerModes, openaiStyle : ServerStyles ]

NoBody == [ numRed |-> 0, numBlue |-> 0, villagerMode |-> "mixed_ends",
            openaiStyle |-> "social" ]

\* The remote service cannot be reached from the hosting service: every
\* request of the External-Delegate policy fails and its fallback decides.
ServerReplies == { FailedReply("error") }

\* _send_json / _error: the status and, for an error, its message.
Response(status, error) == [ status |-> status, error |-> error ]
NoResponse == Response(0, "")

\* A handler thread: the operation, the position in it, the body, the locals
\* village, num_red, cap and steps of _api_run_all (village also holds the
\* object simulate_day or _api_init works on), leaving_today of simulate_day.
NoRequest ==
    [ op |-> "none", pc |-> "idle", body |-> NoBody, village |-> None,
      num_red |-> 0, cap |-> 0, steps |-> 0, leaving_today |-> << >>,
      response |-> NoResponse ]

\* The handler returns: its locals are gone, the answer is sent.
Respond(r, status, error) ==
    [ NoRequest EXCEPT !.op = r.op, !.pc = "done",
                       !.response = Response(status, error) ]

\* Village(reasoning_policy=...) with the villagers create_village added.
Village(vs, pol) ==
    [ villagers |-> vs, reasoning_policy |-> pol, announcement_made |-> FALSE,
      current_day |-> 0, knowledge_level |-> 0, left_yesterday_count |-> 0 ]

Village_make_announcement(vg) ==
    [ vg EXCEPT !.announcement_made = TRUE, !.knowledge_level = 0 - 1 ]

\* simulate_day lines 225-242
Village_simulate_day_begin(vg) ==
    [ vg EXCEPT !.current_day = @ + 1,
                !.villagers = RefreshRound(vg.villagers, vg.left_yesterday_count) ]

\* simulate_day lines 243-251
Village_simulate_day_decide(vg, replies, key) ==
    DecideLoop(vg.villagers, << >>, vg.reasoning_policy, vg.current_day,
               vg.announcement_made, [ j \in 1..Len(vg.villagers) |-> j ], replies, key)

\* simulate_day lines 253-262
Village_simulate_day_end(vg, leaving) ==
    [ vg EXCEPT !.villagers = ApplyLeaving(vg.villagers, leaving, vg.current_day),
                !.left_yesterday_count = Len(leaving) ]

InFlight == { t \in Threads : requests[t].pc \notin {"idle", "done"} }

InitServer ==
    /\ api_key \in BOOLEAN
    /\ call = NoCall
    /\ InitVillage(<< >>, PerfectInductionPolicy)
    /\ APP_STATE = _AppState
    /\ heap = << >>
    /\ requests = [ t \in Threads |-> NoRequest ]

village_vars ==
    << villagers, reasoning_policy, announcement_made, current_day, knowledge_level,
       left_yesterday_count, api_key, pc, i, leaving_today, raised, h_announce_day,
       call >>

\* A POST arrives and gets its thread (threads are taken in order).
do_POST ==
    \E t \in Threads, op \in Ops :
      \E body \in IF op = "init" THEN InitBodies ELSE {NoBody} :
        /\ requests[t].op = "none"
        /\ \A u \in Threads : u < t => requests[u].op # "none"
        /\ Cardinality(InFlight) < Cardinality(Clients)
        /\ requests' = [ requests EXCEPT
                           ![t] = [ NoRequest EXCEPT !.op = op, !.pc = "start",
                                                     !.body = body ] ]
        /\ UNCHANGED << APP_STATE, heap, village_vars >>

\* _api_init lines 223-238: the size test, then the types and the village.
\* Gives the exception raised ("none" if none), its message and the villagers
\* of the village built.
_api_init_village(body) ==
    IF body.numRed < 0 \/ body.numBlue < 0 \/ body.numRed + body.numBlue > PopulationCap
    THEN [ raised |-> "ValueError", error |-> "Invalid population size",
           villagers |-> << >> ]
    ELSE LET made == create_village(body.numRed, body.numBlue,
                         Some(_build_villager_types(body.numRed, body.numBlue,
                                                    body.villagerMode)))
         IN [ raised |-> made.raised,
              error |-> IF made.raised = "none" THEN "" ELSE made.raised,
              villagers |-> made.villagers ]

\* _api_init lines 223-243; _handle_api_post answers a ValueError with status
\* 400 and any other exception with 500.
_api_init ==
    \E t \in Threads :
      LET r == requests[t]
          built == _api_init_village(r.body)
      IN
      /\ r.op = "init" /\ r.pc = "start"
      /\ IF built.raised # "none"
         THEN /\ requests' = [ requests EXCEPT
                  ![t] = Respond(r, IF built.raised = "ValueError" THEN 400 ELSE 500,
                                 built.error) ]
              /\ heap' = heap
         ELSE /\ heap' = Append(heap, Village(built.villagers,
                                              _build_reasoning_policy(r.body.openaiStyle)))
              /\ requests' = [ requests EXCEPT ![t].village = Some(Len(heap) + 1),
                                               ![t].pc = "init_lock" ]
      /\ UNCHANGED << APP_STATE, village_vars >>

\* _api_init lines 245-246: the lock is taken, APP_STATE.village assigned.
_api_init_lock ==
    \E t \in Threads :
      /\ requests[t].op = "init" /\ requests[t].pc = "init_lock"
      /\ APP_STATE.lock = None
      /\ APP_STATE' = [ APP_STATE EXCEPT !.lock = Some(t),
                                         !.village = requests[t].village ]
      /\ requests' = [ requests EXCEPT ![t].pc = "init_locked" ]
      /\ UNCHANGED << heap, village_vars >>

\* _api_init lines 247-251: the other fields, the lock released, the reply.
_api_init_assign ==
    \E t \in Threads :
      /\ requests[t].op = "init" /\ requests[t].pc = "init_locked"
      /\ APP_STATE' = [ APP_STATE EXCEPT
                          !.num_red = requests[t].body.numRed,
                          !.num_blue = requests[t].body.numBlue,
                          !.reasoning_policy =
                              Some(_build_reasoning_policy(requests[t].body.openaiStyle)),
                          !.lock = None ]
      /\ requests' = [ requests EXCEPT ![t] = Respond(@, 200, "") ]
      /\ UNCHANGED << heap, village_vars >>

\* _api_announce lines 254-256: the lock is taken and APP_STATE.village
\* tested; ValueError leaves the with block, which releases the lock.
_api_announce_lock ==
    \E t \in Threads :
      /\ requests[t].op = "announce" /\ requests[t].pc = "start"
      /\ APP_STATE.lock = None
      /\ IF APP_STATE.village = None
         THEN /\ requests' = [ requests EXCEPT ![t] = Respond(@, 400, "Not initialized") ]
              /\ APP_STATE' = APP_STATE
         ELSE /\ requests' = [ requests EXCEPT ![t].pc = "announce_locked",
                                               ![t].village = APP_STATE.village ]
              /\ APP_STATE' = [ APP_STATE EXCEPT !.lock = Some(t) ]
      /\ UNCHANGED << heap, village_vars >>

\* _api_announce lines 257-262
_api_announce ==
    \E t \in Threads :
      /\ requests[t].op = "announce" /\ requests[t].pc = "announce_locked"
      /\ heap' = [ heap EXCEPT ![requests[t].village[1]] = Village_make_announcement(@) ]
      /\ APP_STATE' = [ APP_STATE EXCEPT !.lock = None ]
      /\ requests' = [ requests EXCEPT ![t] = Respond(@, 200, "") ]
      /\ UNCHANGED village_vars

\* _api_next lines 265-267: as _api_announce.
_api_next_lock ==
    \E t \in Threads :
      /\ requests[t].op = "next" /\ requests[t].pc = "start"
      /\ APP_STATE.lock = None
      /\ IF APP_STATE.village = None
         THEN /\ requests' = [ requests EXCEPT ![t] = Respond(@, 400, "Not initialized") ]
              /\ APP_STATE' = APP_STATE
         ELSE /\ requests' = [ requests EXCEPT ![t].pc = "next_locked",
                                               ![t].village = APP_STATE.village ]
              /\ APP_STATE' = [ APP_STATE EXCEPT !.lock = Some(t) ]
      /\ UNCHANGED << heap, village_vars >>

\* _api_next line 268: simulate_day starts.
_api_next ==
    \E t \in Threads :
      /\ requests[t].op = "next" /\ requests[t].pc = "next_locked"
      /\ heap' = [ heap EXCEPT ![requests[t].village[1]] = Village_simulate_day_begin(@) ]
      /\ requests' = [ requests EXCEPT ![t].pc = "sd_decide" ]
      /\ UNCHANGED << APP_STATE, village_vars >>

\* The decide loop of the simulate_day that _api_next or _api_run_all called.
\* An exception of decide leaves simulate_day and the handler (the with block
\* of _api_next releases the lock) and is answered with status 500.
server_simulate_day_decide ==
    \E t \in Threads :
      LET r == requests[t]
          vg == heap[r.village[1]]
          n == Len(vg.villagers)
      IN
      /\ r.pc = "sd_decide"
      /\ \E replies \in [ 1..n -> ServerReplies ] :
           /\ \A j \in 1..n :
                ~IssuesRequest(vg.reasoning_policy, vg.villagers[j], api_key)
                  => replies[j] = FailedReply("error")
           /\ LET loop == Village_simulate_day_decide(vg, replies, api_key) IN
              /\ heap' = [ heap EXCEPT ![r.village[1]].villagers = loop.villagers ]
              /\ IF loop.raised
                 THEN /\ requests' = [ requests EXCEPT ![t] = Respond(r, 500, "No API key found") ]
                      /\ APP_STATE' = IF r.op = "next"
                                      THEN [ APP_STATE EXCEPT !.lock = None ]
                                      ELSE APP_STATE
                 ELSE /\ requests' = [ requests EXCEPT
                                         ![t].pc = "sd_apply",
                                         ![t].leaving_today = loop.leaving_today ]
                      /\ APP_STATE' = APP_STATE
      /\ UNCHANGED village_vars

\* The end of that simulate_day: the departures are applied; _api_next then
\* releases the lock and answers, _api_run_all counts the step.
server_simulate_day_end ==
    \E t \in Threads :
      LET r == requests[t] IN
      /\ r.pc = "sd_apply"
      /\ heap' = [ heap EXCEPT ![r.village[1]] =
                     Village_simulate_day_end(@, r.leaving_today) ]
      /\ IF r.op = "next"
         THEN /\ requests' = [ requests EXCEPT
                                 ![t] = Respond(r, 200, "") ]
              /\ APP_STATE' = [ APP_STATE EXCEPT !.lock = None ]
         ELSE /\ requests' = [ requests EXCEPT ![t].pc = "ra_loop",
                                               ![t].steps = @ + 1,
                                               ![t].leaving_today = << >> ]
              /\ APP_STATE' = APP_STATE
      /\ UNCHANGED village_vars

\* _api_run_all lines 276-277 (no lock is taken anywhere in _api_run_all)
_api_run_all_test ==
    \E t \in Threads :
      /\ requests[t].op = "run_all" /\ requests[t].pc = "start"
      /\ requests' = [ requests EXCEPT
                         ![t] = IF APP_STATE.village = None
                                THEN Respond(@, 400, "Not initialized")
                                ELSE [ @ EXCEPT !.pc = "ra_village" ] ]
      /\ UNCHANGED << APP_STATE, heap, village_vars >>

\* line 279
_api_run_all_village ==
    \E t \in Threads :
      /\ requests[t].pc = "ra_village"
      /\ requests' = [ requests EXCEPT ![t].village = APP_STATE.village,
                                       ![t].pc = "ra_num_red" ]
      /\ UNCHANGED << APP_STATE, heap, village_vars >>

\* line 280
_api_run_all_num_red ==
    \E t \in Threads :
      /\ requests[t].pc = "ra_num_red"
      /\ requests' = [ requests EXCEPT ![t].num_red = APP_STATE.num_red,
                                       ![t].pc = "ra_cap" ]
      /\ UNCHANGED << APP_STATE, heap, village_vars >>

\* lines 287-288; village.announcement_made of None raises AttributeError.
_api_run_all_cap ==
    \E t \in Threads :
      LET r == requests[t] IN
      /\ r.pc = "ra_cap"
      /\ requests' = [ requests EXCEPT
           ![t] = IF r.village = None
                  THEN Respond(r, 500, "AttributeError")
                  ELSE [ r EXCEPT
                           !.cap = IF heap[r.village[1]].announcement_made
                                   THEN IF r.num_red + RunAllCapSlack > RunAllCapFloor
                                        THEN r.num_red + RunAllCapSlack
                                        ELSE RunAllCapFloor
                                   ELSE RunAllCapUnannounced,
                           !.steps = 0,
                           !.pc = "ra_loop" ] ]
      /\ UNCHANGED << APP_STATE, heap, village_vars >>

\* Faulty variant (sensitivity of C35): the run is finished only when every
\* villager, of either colour, has left.
is_finished_everyone(num_red, vg) ==
    \A j \in 1..Len(vg.villagers) : vg.villagers[j].has_left

\* lines 282-285
is_finished(num_red, vg) ==
    \/ num_red = 0
    \/ \A j \in 1..Len(vg.villagers) :
         vg.villagers[j].eye_color = "RED" => vg.villagers[j].has_left

\* lines 289-300: the loop test; then simulate_day starts, or the reply.
_api_run_all_loop ==
    \E t \in Threads :
      LET r == requests[t]
          vg == heap[r.village[1]]
      IN
      /\ r.pc = "ra_loop"
      /\ IF ~is_finished(r.num_red, vg) /\ r.steps < r.cap
         THEN /\ heap' = [ heap EXCEPT ![r.village[1]] = Village_simulate_day_begin(@) ]
              /\ requests' = [ requests EXCEPT ![t].pc = "sd_decide" ]
         ELSE /\ heap' = heap
              /\ requests' = [ requests EXCEPT ![t] = Respond(r, 200, "") ]
      /\ UNCHANGED << APP_STATE, village_vars >>

\* _handle_api_post lines 203-205: the lock is taken, APP_STATE.village cleared.
reset_lock ==
    \E t \in Threads :
      /\ requests[t].op = "reset" /\ requests[t].pc = "start"
      /\ APP_STATE.lock = None
      /\ APP_STATE' = [ APP_STATE EXCEPT !.lock = Some(t), !.village = None ]
      /\ requests' = [ requests EXCEPT ![t].pc = "reset_locked" ]
      /\ UNCHANGED << heap, village_vars >>

\* lines 206-209
reset ==
    \E t \in Threads :
      /\ requests[t].op = "reset" /\ requests[t].pc = "reset_locked"
      /\ APP_STATE' = [ APP_STATE EXCEPT !.num_red = 0, !.num_blue = 0,
                                         !.reasoning_policy = None, !.lock = None ]
      /\ requests' = [ requests EXCEPT ![t] = Respond(@, 200, "") ]
      /\ UNCHANGED << heap, village_vars >>

NextServer ==
    \/ do_POST
    \/ _api_init
    \/ _api_init_lock
    \/ _api_init_assign
    \/ _api_announce_lock
    \/ _api_announce
    \/ _api_next_lock
    \/ _api_next
    \/ server_simulate_day_decide
    \/ server_simulate_day_end
    \/ _api_run_all_test
    \/ _api_run_all_village
    \/ _api_run_all_num_red
    \/ _api_run_all_cap
    \/ _api_run_all_loop
    \/ reset_lock
    \/ reset

SpecServer == InitServer /\ [][NextServer]_vars


(************************* reading the current state ************************)
\* The hosting service observed until a GET /api/state is answered: the POST
\* requests of SpecServer, and one GET, handled in a thread of its own at any
\* moment; `call` records its answer.  _handle_api_get takes no lock.
\* _village_to_state(village, num_red, num_blue): the fields of the snapshot
\* (name and the two logs left out).
_village_to_state(village, num_red, num_blue) ==
    [ numRed |-> num_red, numBlue |-> num_blue,
      announcementMade |-> village.announcement_made,
      currentDay |-> village.current_day,
      knowledgeLevel |-> village.knowledge_level,
      villagers |-> [ k \in 1..Len(village.villagers) |->
          [ id |-> village.villagers[k].id,
            eyeColor |-> village.villagers[k].eye_color,
            villagerType |-> village.villagers[k].villager_type,
            hasLeft |-> village.villagers[k].has_left,
            leftOnDay |-> village.villagers[k].left_on_day,
            observedRedEyes |-> village.villagers[k].observed_red_eyes,
            observedLeftYesterday |-> village.villagers[k].observed_left_yesterday,
            observedLeftTotal |-> village.villagers[k].observed_left_total ] ] ]

\* lines 161-172: "state" is None without a village, else the snapshot.
_handle_api_get ==
    /\ call = NoCall
    /\ call' = [ made |-> TRUE,
                 state |-> IF APP_STATE.village = None THEN None
                           ELSE Some(_village_to_state(heap[APP_STATE.village[1]],
                                                       APP_STATE.num_red,
                                                       APP_STATE.num_blue)) ]
    /\ UNCHANGED << villagers, reasoning_policy, announcement_made, current_day,
                    knowledge_level, left_yesterday_count, api_key, pc, i,
                    leaving_today, raised, h_announce_day, server_vars >>

NextGet ==
    \/ call = NoCall /\ NextServer
    \/ _handle_api_get

SpecGet == InitServer /\ [][NextGet]_vars


(********************* setup as a function of its inputs ********************)
\* One call of create_village (num_red, num_blue and an optional list of
\* villager types) or of _api_init's construction (a JSON body); `call`
\* records the arguments and the outcome.
MaxSetup == 2

TypeLists ==
    UNION { [ 1..n -> {"dummy", "openai"} ] : n \in 0..MaxSetup }

SetupCalls ==
    { [ made |-> FALSE, fn |-> "create_village", num_red |-> r, num_blue |-> b,
        villager_types |-> ts, body |-> NoBody,
        result |-> [ raised |-> "none", villagers |-> << >> ] ] :
        r \in (0 - 1)..MaxSetup, b \in (0 - 1)..MaxSetup,
        ts \in {None} \cup { Some(l) : l \in TypeLists } }
    \cup
    { [ made |-> FALSE, fn |-> "_api_init", num_red |-> body.numRed,
        num_blue |-> body.numBlue, villager_types |-> None, body |-> body,
        result |-> [ raised |-> "none", villagers |-> << >> ] ] :
        body \in InitBodies }

InitSetup ==
    /\ api_key = FALSE
    /\ NoServer
    /\ InitVillage(<< >>, PerfectInductionPolicy)
    /\ call \in SetupCalls

setup_call ==
    /\ ~call.made
    /\ LET out == IF call.fn = "create_village"
                  THEN create_village(call.num_red, call.num_blue, call.villager_types)
                  ELSE _api_init_village(call.body)
       IN call' = [ call EXCEPT !.made = TRUE,
                                !.result = [ raised |-> out.raised,
                                             villagers |-> out.villagers ] ]
    /\ UNCHANGED << villagers, reasoning_policy, announcement_made, current_day,
                    knowledge_level, left_yesterday_count, api_key, pc, i,
                    leaving_today, raised, h_announce_day, server_vars >>

NextSetup == setup_call

SpecSetup == InitSetup /\ [][NextSetup]_vars


(************************ run-to-completion drivers *************************)
\* One run of simulation.run_simulation (verbose=False, the default
\* villager_type, no villager_types) or one sequential session of the hosting
\* service (init, an optional announce, run_all, each request answered before
\* the next is posted).  `call` holds the arguments, the driver's locals
\* (village, the number of rounds played, the limit max_days or cap) and the
\* outcome.  The remote service is out of reach: a request of the
\* External-Delegate policy fails and its fallback decides.
RunSimulationSlack == 5
RunSimulationFloorUnannounced == 10
RunSimulationSlackUnannounced == 10

\* Village.simulate_day as a whole on a Village object: begun is the village
\* after lines 225-242, loop the outcome of the decide loop on it.  The
\* exception of a decide call leaves the village as the loop left it.
Village_simulate_day(begun, loop) ==
    IF loop.raised
    THEN [ raised |-> TRUE, village |-> [ begun EXCEPT !.villagers = loop.villagers ] ]
    ELSE [ raised |-> FALSE,
           village |-> Village_simulate_day_end(
                           [ begun EXCEPT !.villagers = loop.villagers ],
                           loop.leaving_today) ]

\* The remote service is out of reach for every villager.
NoRemoteReplies(vg) == [ j \in 1..Len(vg.villagers) |-> FailedReply("error") ]

remaining_red(vg) ==
    Cardinality({ j \in 1..Len(vg.villagers) :
                    vg.villagers[j].eye_color = "RED" /\ ~vg.villagers[j].has_left })

\* Faulty variant (sensitivity of C22): the loop's exit test does not ask for
\* num_red > 0.
run_simulation_done_unguarded(vg, num_red) == remaining_red(vg) = 0

\* run_simulation line 162: the test that ends the loop with a result.
run_simulation_done(vg, num_red) == remaining_red(vg) = 0 /\ num_red > 0

RunBodies ==
    { b \in [ numRed : 0..MaxRemote, numBlue : 0..MaxRemote,
              villagerMode : VillagerModes, openaiStyle : ServerStyles ] :
        b.numRed + b.numBlue <= MaxRemote }

NoRun(fn, num_red, num_blue, announce, pol, body) ==
    [ fn |-> fn, num_red |-> num_red, num_blue |-> num_blue, announce |-> announce,
      policy |-> pol, body |-> body,
      started |-> FALSE, made |-> FALSE,
      village |-> Village(<< >>, pol), rounds |-> 0, limit |-> 0,
      raised |-> FALSE, days_to_leave |-> 0, all_red_left |-> FALSE ]

RunCalls ==
    { NoRun("run_simulation", p[1], p[2], a, pol, NoBody) :
        p \in Populations, a \in BOOLEAN, pol \in LocalPolicies }
    \cup
    { NoRun("run_all", b.numRed, b.numBlue, a,
            _build_reasoning_policy(b.openaiStyle), b) :
        b \in RunBodies, a \in BOOLEAN }

InitRun ==
    /\ api_key \in BOOLEAN
    /\ NoServer
    /\ InitVillage(<< >>, PerfectInductionPolicy)
    /\ call \in RunCalls

run_vars ==
    << villagers, reasoning_policy, announcement_made, current_day,
       knowledge_level, left_yesterday_count, api_key, pc, i,
       leaving_today, raised, h_announce_day, server_vars >>

\* run_simulation lines 81-87, 116-119 and 133-141: the village, the optional
\* announcement, max_days and the initial results.
run_simulation ==
    /\ call.fn = "run_simulation" /\ ~call.started
    /\ LET created == Village(create_village(call.num_red, call.num_blue, None).villagers,
                              call.policy)
       IN call' = [ call EXCEPT
            !.started = TRUE,
            !.village = IF call.announce THEN Village_make_announcement(created)
                        ELSE created,
            !.limit = IF call.announce THEN call.num_red + RunSimulationSlack
                      ELSE IF call.num_red + RunSimulationSlackUnannounced
                                > RunSimulationFloorUnannounced
                           THEN call.num_red + RunSimulationSlackUnannounced
                           ELSE RunSimulationFloorUnannounced ]
    /\ UNCHANGED run_vars

\* run_simulation lines 143-169: one iteration of the loop (simulate_day, the
\* test on the remaining red villagers), or the loop's end after max_days.
run_simulation_day ==
    /\ call.fn = "run_simulation" /\ call.started /\ ~call.made
    /\ IF call.rounds >= call.limit
       THEN call' = [ call EXCEPT !.made = TRUE ]
       ELSE \E begun \in { Village_simulate_day_begin(call.village) } :
            \E loop \in { Village_simulate_day_decide(begun, NoRemoteReplies(begun),
                                                      api_key) } :
            LET round == Village_simulate_day(begun, loop)
                day == call.rounds + 1
            IN call' = [ call EXCEPT
                 !.village = round.village,
                 !.rounds = day,
                 !.raised = round.raised,
                 !.made = round.raised \/ run_simulation_done(round.village, call.num_red),
                 !.days_to_leave =
                     IF ~round.raised /\ run_simulation_done(round.village, call.num_red)
                     THEN day ELSE 0,
                 !.all_red_left =
                     ~round.raised /\ run_simulation_done(round.village, call.num_red) ]
    /\ UNCHANGED run_vars

\* POST /api/init with the body, then POST /api/announce if asked for
\* (_api_init lines 223-251, _api_announce line 257), and the first lines of
\* POST /api/run_all (279-288: village, num_red, cap, steps).
hosted_session ==
    /\ call.fn = "run_all" /\ ~call.started
    /\ LET created == Village(_api_init_village(call.body).villagers,
                              _build_reasoning_policy(call.body.openaiStyle))
           village == IF call.announce THEN Village_make_announcement(created)
                      ELSE created
       IN call' = [ call EXCEPT
            !.started = TRUE,
            !.village = village,
            !.limit = IF village.announcement_made
                      THEN IF call.body.numRed + RunAllCapSlack > RunAllCapFloor
                           THEN call.body.numRed + RunAllCapSlack ELSE RunAllCapFloor
                      ELSE RunAllCapUnannounced ]
    /\ UNCHANGED run_vars

\* _api_run_all lines 289-300: one iteration of the loop, or the reply.
hosted_run_all ==
    /\ call.fn = "run_all" /\ call.started /\ ~call.made
    /\ IF ~is_finished(call.body.numRed, call.village) /\ call.rounds < call.limit
       THEN \E begun \in { Village_simulate_day_begin(call.village) } :
            \E loop \in { Village_simulate_day_decide(begun, NoRemoteReplies(begun),
                                                      api_key) } :
            LET round == Village_simulate_day(begun, loop) IN
            call' = [ call EXCEPT !.village = round.village,
                                  !.rounds = @ + 1,
                                  !.raised = round.raised,
                                  !.made = round.raised ]
       ELSE call' = [ call EXCEPT !.made = TRUE ]
    /\ UNCHANGED run_vars

NextRun ==
    \/ run_simulation
    \/ run_simulation_day
    \/ hosted_session
    \/ hosted_run_all

SpecRun == InitRun /\ [][NextRun]_vars


(******************* the drivers, one statement at a time ********************)
\* The same two drivers with the rounds they play unfolded into the steps of
\* simulate_day on the village variables: `call` holds the arguments and the
\* driver's locals (the number of rounds begun, the limit max_days or cap),
\* call.village is not used.  run_simulation is also given the
\* External-Delegate policies, and a remote request gets one of DriverReplies.
\* A driver is sequential code: it runs until it returns or raises.
DriverCalls ==
    RunCalls
    \cup
    { NoRun("run_simulation", p[1], p[2], a, pol, NoBody) :
        p \in { q \in Populations : q[1] + q[2] <= MaxRemote },
        a \in BOOLEAN, pol \in RemotePolicies }

\* The replies to a driver's remote requests: a failure, a reply that leaves
\* with a confidence at the threshold, a reply that stays.
DriverReplies ==
    { FailedReply("error"),
      [ kind |-> "json", leave |-> TRUE, confidence_red |-> Some(95),
        public_reason |-> ReasonCertainRed ],
      [ kind |-> "json", leave |-> FALSE, confidence_red |-> Some(50),
        public_reason |-> ReasonHedged ] }

InitDriver ==
    /\ api_key \in BOOLEAN
    /\ NoServer
    /\ InitVillage(<< >>, PerfectInductionPolicy)
    /\ call \in DriverCalls

\* The loop test of the driver: `for day in range(1, max_days + 1)` of
\* run_simulation, `while not is_finished() and steps < cap` of _api_run_all.
driver_continues ==
    IF call.fn = "run_simulation"
    THEN call.rounds < call.limit
    ELSE /\ ~is_finished(call.num_red, Village(villagers, reasoning_policy))
         /\ call.rounds < call.limit

\* run_simulation lines 81-141, or POST /api/init, the optional POST
\* /api/announce and lines 276-288 of _api_run_all.
driver_start ==
    /\ ~call.started
    /\ villagers' = IF call.fn = "run_simulation"
                    THEN create_village(call.num_red, call.num_blue, None).villagers
                    ELSE _api_init_village(call.body).villagers
    /\ reasoning_policy' = call.policy
    /\ announcement_made' = call.announce
    /\ knowledge_level' = IF call.announce THEN 0 - 1 ELSE 0
    /\ h_announce_day' = IF call.announce THEN Some(0) ELSE None
    /\ call' = [ call EXCEPT
         !.started = TRUE,
         !.limit =
             IF call.fn = "run_simulation"
             THEN IF call.announce THEN call.num_red + RunSimulationSlack
                  ELSE IF call.num_red + RunSimulationSlackUnannounced
                            > RunSimulationFloorUnannounced
                       THEN call.num_red + RunSimulationSlackUnannounced
                       ELSE RunSimulationFloorUnannounced
             ELSE IF call.announce
                  THEN IF call.num_red + RunAllCapSlack > RunAllCapFloor
                       THEN call.num_red + RunAllCapSlack ELSE RunAllCapFloor
                  ELSE RunAllCapUnannounced ]
    /\ UNCHANGED << current_day, left_yesterday_count, api_key, pc, i,
                    leaving_today, raised, server_vars >>

\* The loop test holds: simulate_day is called (its lines 225-242).
driver_round ==
    /\ call.started /\ ~call.made
    /\ pc = "idle"
    /\ driver_continues
    /\ current_day' = current_day + 1
    /\ villagers' = RefreshRound(villagers, left_yesterday_count)
    /\ leaving_today' = << >>
    /\ i' = 1
    /\ pc' = "deciding"
    /\ raised' = FALSE
    /\ call' = [ call EXCEPT !.rounds = @ + 1 ]
    /\ UNCHANGED << reasoning_policy, announcement_made, knowledge_level,
                    left_yesterday_count, api_key, h_announce_day, server_vars >>

\* One iteration of simulate_day's decide loop; an exception of decide leaves
\* simulate_day and the driver.
driver_decide ==
    /\ call.started /\ ~call.made
    /\ pc = "deciding"
    /\ i <= Len(villagers)
    /\ \E reply \in IF IssuesRequest(reasoning_policy, villagers[i], api_key)
                    THEN DriverReplies ELSE { FailedReply("error") } :
         LET it == DecideIteration(villagers, leaving_today, reasoning_policy,
                                   current_day, announcement_made, i, reply, api_key)
         IN /\ villagers' = it.villagers
            /\ raised' = it.raised
            /\ IF it.raised
               THEN /\ pc' = "idle"
                    /\ i' = 0
                    /\ leaving_today' = << >>
                    /\ call' = [ call EXCEPT !.raised = TRUE, !.made = TRUE ]
               ELSE /\ pc' = "deciding"
                    /\ i' = i + 1
                    /\ leaving_today' = it.leaving_today
                    /\ call' = call
    /\ UNCHANGED << reasoning_policy, announcement_made, current_day, knowledge_level,
                    left_yesterday_count, api_key, h_announce_day, server_vars >>

\* simulate_day lines 253-264 and, in run_simulation, the test of lines
\* 157-169 on the village it returns to.
driver_round_end ==
    /\ call.started /\ ~call.made
    /\ pc = "deciding"
    /\ i > Len(villagers)
    /\ LET after == ApplyLeaving(villagers, leaving_today, current_day)
           done == /\ call.fn = "run_simulation"
                   /\ run_simulation_done(Village(after, reasoning_policy), call.num_red)
       IN /\ villagers' = after
          /\ call' = [ call EXCEPT !.made = done,
                                   !.all_red_left = done,
                                   !.days_to_leave = IF done THEN call.rounds ELSE 0 ]
    /\ left_yesterday_count' = Len(leaving_today)
    /\ pc' = "idle"
    /\ i' = 0
    /\ leaving_today' = << >>
    /\ UNCHANGED << reasoning_policy, announcement_made, current_day, knowledge_level,
                    api_key, raised, h_announce_day, server_vars >>

\* The loop test fails: the driver returns.
driver_return ==
    /\ call.started /\ ~call.made
    /\ pc = "idle"
    /\ ~driver_continues
    /\ call' = [ call EXCEPT !.made = TRUE ]
    /\ UNCHANGED run_vars

NextDriver ==
    \/ driver_start
    \/ driver_round
    \/ driver_decide
    \/ driver_round_end
    \/ driver_return

SpecDriver == InitDriver /\ [][NextDriver]_vars /\ WF_vars(NextDriver)


(****************************** the remote call *****************************)
\* reasoning._openai_chat_completions: one call, with what the endpoint
\* answers to each request drawn beforehand.  `call` holds the answers, the
\* requests sent so far, the locals last_error and data and the outcome.
\*   "ok"         status 200, a JSON body with choices[0].message.content
\*   "malformed"  status 200, a JSON body without that path
\*   "HTTPError"  urlopen raises HTTPError
\*   "URLError"   urlopen raises URLError
\*   "other"      any other exception inside the try block: a timeout while
\*                the body is read, a body that is not JSON
Answers == {"ok", "malformed", "HTTPError", "URLError", "other"}

\* lines 505-512: the payload shapes in the order they are appended.
attempts ==
    << [ token_key |-> "max_completion_tokens", response_format |-> TRUE ],
       [ token_key |-> "max_completion_tokens", response_format |-> FALSE ],
       [ token_key |-> "max_tokens", response_format |-> TRUE ],
       [ token_key |-> "max_tokens", response_format |-> FALSE ] >>

InitRemote ==
    /\ api_key = TRUE
    /\ NoServer
    /\ InitVillage(<< >>, PerfectInductionPolicy)
    /\ \E answers \in [ 1..Len(attempts) -> Answers ] :
         call = [ made |-> FALSE, pc |-> "loop", answers |-> answers, sent |-> << >>,
                  last_error |-> None, data |-> None, result |-> "none" ]

\* lines 515-537: one iteration of `for payload in attempts`.  Only HTTPError
\* and URLError are caught; any other exception leaves the function.
_openai_chat_completions_attempt ==
    /\ ~call.made /\ call.pc = "loop"
    /\ LET n == Len(call.sent) + 1
           answer == call.answers[n]
           sent == Append(call.sent, attempts[n])
       IN call' =
            CASE answer \in {"ok", "malformed"} ->
                   [ call EXCEPT !.sent = sent, !.data = Some(answer),
                                 !.last_error = None, !.pc = "after" ]
              [] answer \in {"HTTPError", "URLError"} ->
                   [ call EXCEPT !.sent = sent, !.last_error = Some(answer),
                                 !.pc = IF n = Len(attempts) THEN "after" ELSE "loop" ]
              [] answer = "other" ->
                   [ call EXCEPT !.sent = sent, !.made = TRUE, !.pc = "done",
                                 !.result = "raised" ]
    /\ UNCHANGED run_vars

\* lines 539-545: last_error is raised, or the content returned.
_openai_chat_completions_return ==
    /\ ~call.made /\ call.pc = "after"
    /\ call' = [ call EXCEPT
                   !.made = TRUE, !.pc = "done",
                   !.result = IF call.last_error # None THEN "raised"
                              ELSE IF call.data = Some("ok") THEN "content"
                              ELSE "raised" ]
    /\ UNCHANGED run_vars

NextRemote ==
    \/ _openai_chat_completions_attempt
    \/ _openai_chat_completions_return

SpecRemote == InitRemote /\ [][NextRemote]_vars


(********************* leave as a function of its inputs ********************)
\* One call of Villager.leave(day) on a villager that is present or has left
\* on an earlier or later day; `call` records the villager, the day and the
\* villager after the call.
LeaveCalls ==
    { [ made |-> FALSE,
        villager |-> [ v EXCEPT !.left_on_day = IF v.has_left THEN Some(d0) ELSE None ],
        day |-> day,
        result |-> [ v EXCEPT !.left_on_day = IF v.has_left THEN Some(d0) ELSE None ] ] :
        v \in VillagerStates, d0 \in 1..MaxCallDay, day \in 1..MaxCallDay }

InitLeave ==
    /\ api_key = FALSE
    /\ NoServer
    /\ InitVillage(<< >>, PerfectInductionPolicy)
    /\ call \in LeaveCalls

leave_call ==
    /\ ~call.made
    /\ call' = [ call EXCEPT !.made = TRUE, !.result = Leave(call.villager, call.day) ]
    /\ UNCHANGED run_vars

NextLeave == leave_call

SpecLeave == InitLeave /\ [][NextLeave]_vars


(******************* type routing as a function of its inputs ***************)
\* One decide call of PolicyByVillagerType(mapping, default): mapping is a
\* function from some of the type tags to policies, default is None or
\* Some(policy); `call` records the inputs and the result.
TypeTags == {"dummy", "openai", "guest"}

RoutedPolicies ==
    { PerfectInductionPolicy, NoReasoningPolicy,
      OpenAIReasoningPolicy("social", FALSE, DefaultCertaintyThreshold) }

Mappings == UNION { [ D -> RoutedPolicies ] : D \in SUBSET {"dummy", "openai"} }

\* Faulty variant (sensitivity of C31): default is not consulted.
PolicyByVillagerType_policy_nodefault(mapping, default, v) ==
    IF v.villager_type \in DOMAIN mapping THEN mapping[v.villager_type]
    ELSE PerfectInductionPolicy

\* Lines 150-153: policy = mapping.get(str(villager_type), default), replaced
\* by PerfectInductionPolicy() when that is None.
PolicyByVillagerType_policy(mapping, default, v) ==
    LET policy == IF v.villager_type \in DOMAIN mapping
                  THEN Some(mapping[v.villager_type])
                  ELSE default
    IN IF policy = None THEN PerfectInductionPolicy ELSE policy[1]

InitRouted ==
    /\ api_key \in BOOLEAN
    /\ NoServer
    /\ InitVillage(<< >>, PerfectInductionPolicy)
    /\ \E v \in VillagerStates, ty \in TypeTags, day \in 1..MaxCallDay,
          announced \in BOOLEAN, mapping \in Mappings,
          default \in {None} \cup { Some(pol) : pol \in RoutedPolicies } :
         LET villager == [ v EXCEPT !.villager_type = ty ] IN
         \E reply \in IF IssuesRequest(
                            PolicyByVillagerType_policy(mapping, default, villager),
                            villager, api_key)
                      THEN VillageReplies ELSE { FailedReply("error") } :
           call = [ made |-> FALSE, mapping |-> mapping, default |-> default,
                    villager |-> villager, day |-> day, announced |-> announced,
                    reply |-> reply, key |-> api_key, result |-> NoResult ]

\* PolicyByVillagerType.decide, line 154: the decision of the policy selected.
routed_call ==
    /\ ~call.made
    /\ \E policy \in { PolicyByVillagerType_policy(call.mapping, call.default,
                                                   call.villager) } :
         call' = [ call EXCEPT
                     !.made = TRUE,
                     !.result = Decide(policy, call.villager, call.day,
                                       call.announced, call.reply, call.key) ]
    /\ UNCHANGED << villagers, reasoning_policy, announcement_made, current_day,
                    knowledge_level, left_yesterday_count, api_key, pc, i,
                    leaving_today, raised, h_announce_day, server_vars >>

NextRouted == routed_call

SpecRouted == InitRouted /\ [][NextRouted]_vars


(*************** the three copies of the perfect-induction rule *************)
\* Faulty variant (sensitivity of C36): the method still leaves after its day.
Villager_reason_and_decide_late(v, day, public_announcement_made) ==
    IF v.has_left THEN Result(FALSE, 0)
    ELSE IF ~public_announcement_made THEN Result(FALSE, 1)
    ELSE IF v.eye_color = "BLUE" THEN Result(FALSE, 1)
    ELSE IF v.observed_red_eyes = 0
         THEN IF day = 1 THEN Result(TRUE, 1) ELSE Result(FALSE, 0)
    ELSE LET k == v.observed_red_eyes
             my_leave_day == k + 1 IN
         IF day < my_leave_day THEN Result(FALSE, 1)
         ELSE Result(TRUE, 1)

\* Villager.reason_and_decide (puzzle.py): the decision and the number of
\* entries appended to self.reasoning_log.
Villager_reason_and_decide(v, day, public_announcement_made) ==
    IF v.has_left THEN Result(FALSE, 0)
    ELSE IF ~public_announcement_made THEN Result(FALSE, 1)
    ELSE IF v.eye_color = "BLUE" THEN Result(FALSE, 1)
    ELSE IF v.observed_red_eyes = 0
         THEN IF day = 1 THEN Result(TRUE, 1) ELSE Result(FALSE, 0)
    ELSE LET k == v.observed_red_eyes
             my_leave_day == k + 1 IN
         IF day < my_leave_day THEN Result(FALSE, 1)
         ELSE IF day = my_leave_day THEN Result(TRUE, 1)
         ELSE Result(FALSE, 0)

\* One call of each of the three on the same villager, day and flag; `call`
\* records the inputs and the three results.  The no-log function appends
\* nothing.
InitInduction ==
    /\ api_key = FALSE
    /\ NoServer
    /\ InitVillage(<< >>, PerfectInductionPolicy)
    /\ \E v \in VillagerStates, day \in 1..(MaxObserved + 2), announced \in BOOLEAN :
         call = [ made |-> FALSE, villager |-> v, day |-> day, announced |-> announced,
                  no_log |-> NoResult, policy |-> NoResult, method |-> NoResult ]

induction_call ==
    /\ ~call.made
    /\ call' = [ call EXCEPT
         !.made = TRUE,
         !.no_log = Result(_perfect_induction_decide_no_log(
                               call.villager, call.day, call.announced), 0),
         !.policy = PerfectInductionPolicy_decide(call.villager, call.day, call.announced),
         !.method = Villager_reason_and_decide(call.villager, call.day, call.announced) ]
    /\ UNCHANGED run_vars

NextInduction == induction_call

SpecInduction == InitInduction /\ [][NextInduction]_vars


(************** decide on two villagers with different statistics ***********)
\* One decide call of a policy that issues no remote request on each of two
\* villagers that agree on everything except observed_left_yesterday and
\* observed_left_total; `call` records both villagers and both results.
GroupStatistics == (0..1) \X (0..1)

WithStatistics(v, g) ==
    [ v EXCEPT !.observed_left_yesterday = g[1], !.observed_left_total = g[2] ]

InitPair ==
    /\ api_key = FALSE
    /\ NoServer
    /\ InitVillage(<< >>, PerfectInductionPolicy)
    /\ \E v \in VillagerStates, day \in 1..MaxCallDay, announced \in BOOLEAN,
          pol \in LocalPolicies, g1 \in GroupStatistics, g2 \in GroupStatistics :
         call = [ made |-> FALSE, policy |-> pol, day |-> day, announced |-> announced,
                  villager1 |-> WithStatistics(v, g1),
                  villager2 |-> WithStatistics(v, g2),
                  result1 |-> NoResult, result2 |-> NoResult ]

pair_call ==
    /\ ~call.made
    /\ call' = [ call EXCEPT
         !.made = TRUE,
         !.result1 = Decide(call.policy, call.villager1, call.day, call.announced,
                            FailedReply("error"), api_key),
         !.result2 = Decide(call.policy, call.villager2, call.day, call.announced,
                            FailedReply("error"), api_key) ]
    /\ UNCHANGED run_vars

NextPair == pair_call

SpecPair == InitPair /\ [][NextPair]_vars


(******************************** claims ************************************)
Ids == 1..Len(villagers)
IsRed(j) == villagers[j].eye_color = "RED"
Idle == pc = "idle"

\* C1: k >= 1 red villagers, any number of blue ones, PerfectInduction, the
\* announcement made before the first round: nobody leaves in rounds 1..k-1,
\* every red villager leaves in round k and is stamped with day k, and no blue
\* villager ever leaves.
C1_ClosedFormConvergence ==
    ( /\ reasoning_policy = PerfectInductionPolicy
      /\ h_announce_day = Some(0)
      /\ get_red_eye_count >= 1 )
    => \A j \in Ids :
         /\ ~IsRed(j) => ~villagers[j].has_left
         /\ IsRed(j) =>
              /\ villagers[j].has_left => villagers[j].left_on_day = Some(get_red_eye_count)
              /\ current_day < get_red_eye_count => ~villagers[j].has_left
              /\ (Idle /\ current_day >= get_red_eye_count) => villagers[j].has_left

C1_Witness ==
    /\ reasoning_policy = PerfectInductionPolicy
    /\ h_announce_day = Some(0)
    /\ get_red_eye_count = 3
    /\ Len(villagers) > 3
    /\ Idle
    /\ current_day > 3
    /\ \A j \in Ids : IsRed(j) => villagers[j].left_on_day = Some(3)

\* C2: at least one red villager, PerfectInduction, no announcement: after any
\* number of rounds nobody has left (and nobody is about to).
C2_NoAnnouncementNoDeparture ==
    ( /\ reasoning_policy = PerfectInductionPolicy
      /\ ~announcement_made
      /\ get_red_eye_count >= 1 )
    => /\ \A j \in Ids : ~villagers[j].has_left /\ villagers[j].left_on_day = None
       /\ leaving_today = << >>

C2_Witness ==
    /\ reasoning_policy = PerfectInductionPolicy
    /\ ~announcement_made
    /\ get_red_eye_count >= 1
    /\ Idle
    /\ current_day >= 3
    /\ \A j \in Ids : ~villagers[j].has_left

\* C3: the order in which simulate_day visits the villagers does not matter.
\* From every state between rounds, for every assignment of remote replies to
\* villagers and every order of the decide loop, the round leaves the same
\* departed flags, departure days and left_yesterday_count as the code's order
\* 1..N does.  The next round recomputes every observation from exactly these,
\* so the later rounds agree as well.
OrderReplies ==
    { FailedReply("error"),
      [ kind |-> "json", leave |-> TRUE, confidence_red |-> Some(50),
        public_reason |-> ReasonHedged ],
      [ kind |-> "json", leave |-> FALSE, confidence_red |-> Some(50),
        public_reason |-> ReasonHedged ] }

ReplyAssignments ==
    { rp \in [ Ids -> OrderReplies ] :
        \A j \in Ids : ~IssuesRequest(reasoning_policy, villagers[j], api_key)
                         => rp[j] = FailedReply("error") }

CodeOrder == [ j \in Ids |-> j ]

Departures(out) ==
    [ departed |-> [ j \in 1..Len(out.villagers) |->
                       << out.villagers[j].has_left, out.villagers[j].left_on_day >> ],
      left_yesterday_count |-> out.left_yesterday_count ]

C3_OrderIndependence ==
    Idle =>
      LET refreshed == RefreshRound(villagers, left_yesterday_count) IN
      \A rp \in ReplyAssignments :
        LET in_code_order == Departures(RoundAfterRefresh(refreshed, CodeOrder, rp)) IN
        \A order \in Permutations(Ids) :
          Departures(RoundAfterRefresh(refreshed, order, rp)) = in_code_order

C3_Witness ==
    /\ Idle
    /\ Len(villagers) >= 3
    /\ \E rp \in ReplyAssignments : RoundOutcome(CodeOrder, rp).left_yesterday_count >= 2

\* C4: while the decisions of round r are being computed, no departure of
\* round r has been applied: nobody is stamped with day r, the departed
\* villagers are those of earlier rounds, and every present villager's
\* observed count and group statistics are those of the pre-decision snapshot.
C4_DecisionsSeeFrozenSnapshot ==
    pc = "deciding" =>
      \A j \in Ids :
        /\ villagers[j].left_on_day # Some(current_day)
        /\ villagers[j].has_left <=> villagers[j].left_on_day # None
        /\ ~villagers[j].has_left =>
             /\ villagers[j].observed_red_eyes =
                  Cardinality({ m \in Ids : m # j /\ IsRed(m) /\ ~villagers[m].has_left })
             /\ villagers[j].observed_left_yesterday = left_yesterday_count
             /\ villagers[j].observed_left_total =
                  Cardinality({ m \in Ids : villagers[m].has_left })

C4_Witness ==
    /\ pc = "deciding"
    /\ i > 1
    /\ i <= Len(villagers)
    /\ Len(leaving_today) >= 1
    /\ ~villagers[i].has_left

\* C5: once a villager has left it stays departed and its departure day keeps
\* the value first given, whatever announce / round steps follow.
C5_DepartureIsPermanent ==
    [][ \A j \in Ids : villagers[j].has_left =>
            /\ villagers'[j].has_left
            /\ villagers'[j].left_on_day = villagers[j].left_on_day ]_vars

C5_Witness ==
    /\ Idle
    /\ \E j \in Ids : /\ villagers[j].has_left
                      /\ villagers[j].left_on_day # None
                      /\ villagers[j].left_on_day[1] + 2 <= current_day

C7_CertaintyForcesLeave ==
    ( /\ call.made
      /\ IssuesRequest(call.policy, call.villager, call.key)
      /\ call.result.parsed_confidence # None
      /\ call.result.parsed_confidence[1] >= call.policy.certainty_threshold )
    => call.result.leave /\ ~call.result.raised

C7_Witness ==
    /\ call.made
    /\ call.policy.kind = "OpenAI"
    /\ ~AlignmentOn(call.policy)
    /\ call.policy.certainty_threshold = DefaultCertaintyThreshold
    /\ call.reply.kind = "json"
    /\ ~call.reply.leave
    /\ call.reply.confidence_red = Some(DefaultCertaintyThreshold)
    /\ call.villager.eye_color = "BLUE"
    /\ call.result.leave
    /\ call.result.forced

\* C8 as stated: with alignment on, whatever the remote reply, the decision of
\* the External-Delegate policy is PerfectInduction's decision for the same
\* villager, day and announcement flag.
C8_AlignedEqualsPerfectInduction ==
    ( /\ call.made
      /\ UsesRemote(call.policy, call.villager)
      /\ call.key
      /\ AlignmentOn(call.policy) )
    => call.result.leave =
         PerfectInductionPolicy_decide(call.villager, call.day, call.announced).leave

\* C9 as stated: every villager governed by the External-Delegate policy with
\* alignment on, an API key configured, k >= 1 red villagers, the announcement
\* made before round 1: whatever the replies, the red villagers leave in round
\* k and no blue villager ever leaves.
C9_AlignedConvergence ==
    ( /\ \A j \in Ids : UsesRemote(reasoning_policy, villagers[j])
      /\ AlignmentOn(reasoning_policy)
      /\ api_key
      /\ h_announce_day = Some(0)
      /\ get_red_eye_count >= 1 )
    => \A j \in Ids :
         /\ ~IsRed(j) => ~villagers[j].has_left
         /\ IsRed(j) =>
              /\ villagers[j].has_left => villagers[j].left_on_day = Some(get_red_eye_count)
              /\ (Idle /\ current_day >= get_red_eye_count) => villagers[j].has_left

\* C10: when the request fails on every attempt or the reply holds no JSON
\* object, decide (API key present, default threshold, any style) does not
\* raise and returns PerfectInduction's decision, with confidence 1.0 if that
\* is leave and 0.0 otherwise.
C10_FallbackIsPerfectInduction ==
    ( /\ call.made
      /\ IssuesRequest(call.policy, call.villager, call.key)
      /\ call.reply.kind \in {"error", "nojson"}
      /\ call.policy.certainty_threshold = DefaultCertaintyThreshold )
    => LET perfect == PerfectInductionPolicy_decide(call.villager, call.day,
                                                    call.announced).leave IN
       /\ ~call.result.raised
       /\ call.result.leave = perfect
       /\ call.result.confidence_red = Some(IF perfect THEN 100 ELSE 0)

C10_Witness ==
    /\ call.made
    /\ call.policy.kind = "OpenAI"
    /\ call.policy.style = "social"
    /\ ~AlignmentOn(call.policy)
    /\ call.policy.certainty_threshold = DefaultCertaintyThreshold
    /\ call.reply.kind = "nojson"
    /\ call.villager.observed_red_eyes = 2
    /\ call.day = 3
    /\ call.result.leave
    /\ call.result.confidence_red = Some(100)

\* C11: the text heuristic reports certainty exactly when the justification
\* contains a first-person positive phrase and a certainty marker and contains
\* no hedge phrase and no denial phrase; in particular a hedge or a denial
\* anywhere in the text suppresses it even next to a positive phrase and a
\* certainty marker.
HasPhrase(text, phrases) == \E p \in phrases : Contains(text, p)

C11_HeuristicExactlyUnhedgedCertainty ==
    call.made =>
      ( call.result <=>
          /\ HasPhrase(call.reason, positive_red_phrases)
          /\ HasPhrase(call.reason, certainty_markers)
          /\ ~HasPhrase(call.reason, neg_phrases)
          /\ ~HasPhrase(call.reason, deny_red_phrases) )

C11_Witness ==
    /\ call.made
    /\ HasPhrase(call.reason, positive_red_phrases)
    /\ HasPhrase(call.reason, certainty_markers)
    /\ HasPhrase(call.reason, deny_red_phrases)
    /\ ~HasPhrase(call.reason, neg_phrases)
    /\ ~call.result


\* C12: BoundedInduction(max_k), k >= 1 red villagers, the announcement made
\* before round 1.  If k - 1 <= max_k the run is PerfectInduction's: nobody
\* leaves before round k, every red villager leaves in round k, no blue one
\* ever does.  If k - 1 > max_k nobody leaves in any round.
C12_BoundedInductionReach ==
    ( /\ reasoning_policy.kind = "BoundedInduction"
      /\ h_announce_day = Some(0)
      /\ get_red_eye_count >= 1 )
    => IF get_red_eye_count - 1 <= reasoning_policy.max_k
       THEN \A j \in Ids :
              /\ ~IsRed(j) => ~villagers[j].has_left
              /\ IsRed(j) =>
                   /\ villagers[j].has_left =>
                        villagers[j].left_on_day = Some(get_red_eye_count)
                   /\ current_day < get_red_eye_count => ~villagers[j].has_left
                   /\ (Idle /\ current_day >= get_red_eye_count) => villagers[j].has_left
       ELSE /\ \A j \in Ids : ~villagers[j].has_left /\ villagers[j].left_on_day = None
            /\ leaving_today = << >>

C12_Witness ==
    /\ reasoning_policy = BoundedInductionPolicy(1)
    /\ h_announce_day = Some(0)
    /\ get_red_eye_count = 2
    /\ Len(villagers) > 2
    /\ Idle
    /\ current_day > 2
    /\ \A j \in Ids : IsRed(j) <=> villagers[j].left_on_day = Some(2)

\* C13: MaxDayCutoff(max_day) around PerfectInduction, k >= 1 red villagers,
\* the announcement made before round 1.  If k <= max_day every red villager
\* leaves in round k (nobody before, no blue one ever); if k > max_day nobody
\* leaves in any round; and on every day after max_day decide returns false
\* for every villager, also where PerfectInduction returns true.
C13_MaxDayCutoffReach ==
    ( /\ reasoning_policy.kind = "MaxDay"
      /\ h_announce_day = Some(0)
      /\ get_red_eye_count >= 1 )
    => /\ IF get_red_eye_count <= reasoning_policy.max_day
          THEN \A j \in Ids :
                 /\ ~IsRed(j) => ~villagers[j].has_left
                 /\ IsRed(j) =>
                      /\ villagers[j].has_left =>
                           villagers[j].left_on_day = Some(get_red_eye_count)
                      /\ current_day < get_red_eye_count => ~villagers[j].has_left
                      /\ (Idle /\ current_day >= get_red_eye_count) => villagers[j].has_left
          ELSE /\ \A j \in Ids : ~villagers[j].has_left /\ villagers[j].left_on_day = None
               /\ leaving_today = << >>
       /\ \A j \in Ids, day \in 1..MaxDays, announced \in BOOLEAN :
            day > reasoning_policy.max_day =>
              ~MaxDayReasoningPolicy_decide(reasoning_policy.max_day, villagers[j],
                                            day, announced).leave

C13_Witness ==
    /\ reasoning_policy = MaxDayReasoningPolicy(2)
    /\ h_announce_day = Some(0)
    /\ get_red_eye_count = 3
    /\ Len(villagers) > 3
    /\ Idle
    /\ current_day > 3
    /\ \A j \in Ids : ~villagers[j].has_left
    /\ \E j \in Ids : PerfectInductionPolicy_decide(villagers[j], 3, TRUE).leave

\* C14: Fallible with mistake_rate 0 behaves as PerfectInduction.  The two
\* runs start from the same village; from every state the Fallible(0, seed)
\* run reaches between rounds, the round PerfectInduction would play leaves
\* the same villagers (departed flags, departure days, logs, observations) and
\* the same left_yesterday_count as the round Fallible plays, announce does not
\* consult the policy, so the runs never part.
NoReplies == [ j \in Ids |-> FailedReply("error") ]

RoundUnder(pol) ==
    LET day == current_day + 1
        loop == DecideLoop(RefreshRound(villagers, left_yesterday_count), << >>, pol,
                           day, announcement_made, CodeOrder, NoReplies, api_key)
    IN [ villagers |-> ApplyLeaving(loop.villagers, loop.leaving_today, day),
         leaving_today |-> loop.leaving_today ]

C14_FallibleZeroIsPerfectInduction ==
    ( /\ Idle
      /\ reasoning_policy.kind = "Fallible"
      /\ reasoning_policy.mistake_rate = 0 )
    => RoundUnder(reasoning_policy) = RoundUnder(PerfectInductionPolicy)

C14_Witness ==
    /\ Idle
    /\ reasoning_policy = FalliblePolicy(0, 123)
    /\ announcement_made
    /\ get_red_eye_count = 2
    /\ Len(villagers) > 2
    /\ current_day = 1
    /\ Len(RoundUnder(PerfectInductionPolicy).leaving_today) = 2

\* C15: Fallible with mistake_rate 1 (1000 thousandths): for every
\* population, seed, announcement time and number of rounds nobody has left
\* and nobody is about to leave.
C15_FallibleOneNobodyLeaves ==
    ( /\ reasoning_policy.kind = "Fallible"
      /\ reasoning_policy.mistake_rate = 1000 )
    => /\ \A j \in Ids : ~villagers[j].has_left /\ villagers[j].left_on_day = None
       /\ leaving_today = << >>

\* Round 1 was played after the announcement with a single red villager:
\* PerfectInduction returned true for it and the mistake was logged.
C15_Witness ==
    /\ reasoning_policy.kind = "Fallible"
    /\ reasoning_policy.mistake_rate = 1000
    /\ h_announce_day = Some(0)
    /\ get_red_eye_count = 1
    /\ Idle
    /\ current_day = 1
    /\ \E j \in Ids : IsRed(j) /\ ~villagers[j].has_left /\ villagers[j].reasoning_log = 2

\* C16: for every mistake_rate, seed, villager, day and announcement flag,
\* Fallible.decide returns true only if its inner policy (PerfectInduction)
\* returns true for the same call.
C16_FallibleNoFalsePositive ==
    ( /\ call.made
      /\ call.policy.kind = "Fallible"
      /\ call.result.leave )
    => PerfectInductionPolicy_decide(call.villager, call.day, call.announced).leave

\* The inner policy says stay and the draw is below mistake_rate: a mistake
\* could only have been a false positive, and none is made.
C16_Witness ==
    /\ call.made
    /\ call.policy.kind = "Fallible"
    /\ call.policy.mistake_rate = 500
    /\ ~call.villager.has_left
    /\ call.villager.eye_color = "RED"
    /\ call.announced
    /\ RandomDraw(call.policy.seed, call.villager.id, call.day) < 500
    /\ ~PerfectInductionPolicy_decide(call.villager, call.day, call.announced).leave
    /\ ~call.result.leave

\* C17: for a villager whose has_left is true, every policy returns false, for
\* every day and announcement flag; the External-Delegate policy (directly or
\* through TypeRouted) does so whether or not an API key is configured and
\* whatever the remote service would answer: it issues no request, raises
\* nothing and appends nothing to the log.
C17_DepartedNeverLeaves ==
    ( call.made /\ call.villager.has_left )
    => /\ call.result = Result(FALSE, 0)
       /\ \A reply \in Replies, key \in BOOLEAN :
            Decide(call.policy, call.villager, call.day, call.announced, reply, key)
              = Result(FALSE, 0)

C17_Witness ==
    /\ call.made
    /\ call.villager.has_left
    /\ call.policy.kind = "ByVillagerType"
    /\ call.villager.villager_type = "openai"
    /\ ~call.key
    /\ call.announced
    /\ call.villager.eye_color = "RED"
    /\ call.day = call.villager.observed_red_eyes + 1
    /\ ~call.result.leave /\ ~call.result.raised /\ ~call.result.requested

\* C18 as stated: as long as no run has been initialized (no init request was
\* ever posted), every announce, advance-one-round, run-to-completion and
\* reset request that has been answered was rejected with the error
\* "Not initialized", and the service has no run.
C18_UninitializedRejected ==
    ( \A t \in Threads : requests[t].op # "init" )
    => /\ APP_STATE.village = None
       /\ \A t \in Threads :
            ( requests[t].op \in MutatingOps /\ requests[t].pc = "done" )
              => requests[t].response = Response(400, "Not initialized")

\* C19 as stated: no two of the requests announce, advance-round,
\* run-to-completion and reset are inside their state-mutating sections at the
\* same time.
Mutating(t) ==
    \/ requests[t].op = "announce" /\ requests[t].pc = "announce_locked"
    \/ requests[t].op = "next" /\ requests[t].pc \in {"next_locked", "sd_decide", "sd_apply"}
    \/ requests[t].op = "run_all" /\ requests[t].pc \in {"ra_loop", "sd_decide", "sd_apply"}
    \/ requests[t].op = "reset" /\ requests[t].pc = "reset_locked"

C19_MutatorsExclusive ==
    \A t, u \in Threads : ( Mutating(t) /\ Mutating(u) ) => t = u

\* C20 as stated: a setup whose parameters are invalid (a negative red or
\* blue count; a villager_types list whose length is not num_red + num_blue;
\* in the hosting init, a total above the cap of 200) raises an error and
\* creates no population.
InvalidSetup ==
    \/ call.num_red < 0
    \/ call.num_blue < 0
    \/ call.fn = "create_village" /\ call.villager_types # None
         /\ Len(call.villager_types[1]) # call.num_red + call.num_blue
    \/ call.fn = "_api_init" /\ call.num_red + call.num_blue > PopulationCap

C20_InvalidSetupRejected ==
    ( call.made /\ InvalidSetup )
    => call.result.raised # "none" /\ call.result.villagers = << >>

\* C21: when no API key is configured, the decide call of the External-Delegate
\* policy (directly or through TypeRouted) for a present villager, made by
\* the decide loop of simulate_day, raises: the round ends there with the
\* exception, no departure of the round is applied, and no villager's fields
\* (the reasoning log included) are touched by the call.
C21_MissingKeyRaises ==
    [][ ( /\ pc = "deciding"
          /\ i <= Len(villagers)
          /\ UsesRemote(reasoning_policy, villagers[i])
          /\ ~villagers[i].has_left
          /\ ~api_key )
        => /\ raised'
           /\ pc' = "idle"
           /\ villagers' = villagers
           /\ left_yesterday_count' = left_yesterday_count ]_vars

\* Two rounds ended with the error at the first villager, whose fallback
\* decision would have been to leave on day 1.
C21_Witness ==
    /\ raised
    /\ Idle
    /\ ~api_key
    /\ announcement_made
    /\ current_day = 2
    /\ Len(villagers) = 2
    /\ UsesRemote(reasoning_policy, villagers[1])
    /\ IsRed(1) /\ villagers[1].observed_red_eyes = 0
    /\ \A j \in Ids : ~villagers[j].has_left /\ villagers[j].reasoning_log = 0

\* C22: zero red villagers, any number of blue ones, every villager decided
\* for by PerfectInduction, the announcement made or not: in every round of
\* the run-to-completion driver nobody has left; run_simulation plays all its
\* rounds and reports days_to_leave = 0 (and all_red_left false), the hosting
\* run_all returns after zero rounds.
C22_ZeroRedNobodyLeaves ==
    ( /\ call.num_red = 0
      /\ \/ call.fn = "run_simulation" /\ call.policy = PerfectInductionPolicy
         \/ call.fn = "run_all" /\ call.body.villagerMode = "all_dummy" )
    => /\ ~call.raised
       /\ call.started => Len(call.village.villagers) = call.num_blue
       /\ \A j \in 1..Len(call.village.villagers) :
            /\ ~call.village.villagers[j].has_left
            /\ call.village.villagers[j].left_on_day = None
       /\ call.village.left_yesterday_count = 0
       /\ call.days_to_leave = 0
       /\ ~call.all_red_left
       /\ call.rounds = call.village.current_day
       /\ (call.fn = "run_simulation" /\ call.made) => call.rounds = call.limit
       /\ call.fn = "run_all" => call.rounds = 0

C22_Witness ==
    /\ call.made
    /\ call.fn = "run_simulation"
    /\ call.policy = PerfectInductionPolicy
    /\ call.num_red = 0
    /\ call.num_blue >= 2
    /\ call.announce
    /\ call.rounds = RunSimulationSlack
    /\ call.days_to_leave = 0
    /\ \A j \in 1..Len(call.village.villagers) :
         /\ ~call.village.villagers[j].has_left
         /\ call.village.villagers[j].reasoning_log = RunSimulationSlack

\* C23: in every reachable state a villager has left if and only if its
\* left_on_day is set, and a set left_on_day r satisfies
\* 1 <= r <= current_day; the step that ends a round stamps every villager
\* that decided to leave in it (the members of leaving_today) with the value
\* current_day has during that round, and no step sets a left_on_day otherwise.
C23_StampState ==
    \A j \in Ids :
      /\ villagers[j].has_left <=> villagers[j].left_on_day # None
      /\ villagers[j].left_on_day # None =>
           /\ 1 <= villagers[j].left_on_day[1]
           /\ villagers[j].left_on_day[1] <= current_day

C23_StampStep ==
    \A j \in Ids :
      villagers'[j].left_on_day # villagers[j].left_on_day =>
        /\ pc = "deciding" /\ pc' = "idle" /\ ~raised'
        /\ \E m \in 1..Len(leaving_today) : leaving_today[m] = j
        /\ villagers[j].left_on_day = None
        /\ villagers'[j].left_on_day = Some(current_day)
        /\ current_day' = current_day

C23_DepartureRoundStamp == [] C23_StampState /\ [][C23_StampStep]_vars

C23_Witness ==
    /\ Idle
    /\ current_day = 4
    /\ \E j \in Ids : villagers[j].has_left /\ villagers[j].left_on_day = Some(2)
    /\ \E j \in Ids : ~villagers[j].has_left /\ villagers[j].left_on_day = None

\* C24 as stated: between rounds (after setup, after announce, after every
\* completed round, also one in which villagers left) every present
\* villager's observed_red_eyes is the number of other villagers that are red
\* and have not left.
C24_ObservedCountCurrent ==
    Idle =>
      \A j \in Ids :
        ~villagers[j].has_left =>
          villagers[j].observed_red_eyes =
            Cardinality({ m \in Ids : m # j /\ IsRed(m) /\ ~villagers[m].has_left })

\* C25: the announcement is one-way.  In every reachable state
\* knowledge_level is -1 if the announcement has been made and 0 if not; once
\* announcement_made is true, every later step (another announcement, any
\* step of a round) leaves it true and knowledge_level at -1.
C25_AnnouncementState ==
    /\ announcement_made => knowledge_level = 0 - 1
    /\ ~announcement_made => knowledge_level = 0 /\ h_announce_day = None

C25_AnnouncementStep ==
    announcement_made => announcement_made' /\ knowledge_level' = 0 - 1

C25_AnnouncementOneWay == [] C25_AnnouncementState /\ [][C25_AnnouncementStep]_vars

C25_Witness ==
    /\ Idle
    /\ announcement_made
    /\ knowledge_level = 0 - 1
    /\ h_announce_day = Some(1)
    /\ current_day = 3

\* C26 as stated: PerfectInduction, k >= 1 red villagers, the announcement
\* made after r >= 0 rounds have been played: the red villagers leave in the
\* k-th round after the announcement (round r + k of the run), not before,
\* and no blue villager leaves.
C26_DaysCountFromAnnouncement ==
    ( /\ reasoning_policy = PerfectInductionPolicy
      /\ h_announce_day # None
      /\ get_red_eye_count >= 1 )
    => LET leave_round == h_announce_day[1] + get_red_eye_count IN
       \A j \in Ids :
         /\ ~IsRed(j) => ~villagers[j].has_left
         /\ IsRed(j) =>
              /\ current_day < leave_round => ~villagers[j].has_left
              /\ (Idle /\ current_day >= leave_round) => villagers[j].has_left

\* C27 as stated: the requests of one remote call are sent in the fixed order
\* (max_completion_tokens with the hint, without it, max_tokens with the
\* hint, without it), nothing is sent after the first request that succeeds,
\* at most four requests are sent, and the call reports failure only after
\* both parameter names have been tried.
C27_RetryShapes ==
    /\ Len(call.sent) <= 4
    /\ \A n \in 1..Len(call.sent) :
         /\ call.sent[n] = attempts[n]
         /\ n < Len(call.sent) => call.answers[n] \notin {"ok", "malformed"}
    /\ ( call.made /\ call.result = "raised" )
         => \A key \in {"max_completion_tokens", "max_tokens"} :
              \E n \in 1..Len(call.sent) : call.sent[n].token_key = key

\* C28: the confidence is primary in the enforcement of a decide call of the
\* External-Delegate policy.  When a confidence is supplied and is below the
\* threshold nothing is forced: a reply that says stay stays stay (alignment
\* off), also when its justification asserts unhedged certainty.  A forced
\* leave comes from a confidence at or above the threshold, or, only when no
\* confidence is supplied, from the text heuristic accepting the justification.
C28_ConfidenceIsPrimary ==
    ( call.made /\ call.result.requested )
    => /\ ( /\ call.result.confidence_red # None
            /\ call.result.confidence_red[1] < call.policy.certainty_threshold )
          => /\ ~call.result.forced
             /\ ( /\ call.reply.kind = "json"
                  /\ ~call.reply.leave
                  /\ ~AlignmentOn(call.policy) ) => ~call.result.leave
       /\ call.result.forced =>
            \/ /\ call.result.confidence_red # None
               /\ call.result.confidence_red[1] >= call.policy.certainty_threshold
            \/ /\ call.result.confidence_red = None
               /\ call.reply.kind = "json"
               /\ call.reply.confidence_red = None
               /\ _reason_implies_certain_red_eye(call.reply.public_reason)

C28_Witness ==
    /\ call.made
    /\ call.result.requested
    /\ call.policy.kind = "OpenAI"
    /\ ~AlignmentOn(call.policy)
    /\ call.policy.certainty_threshold = DefaultCertaintyThreshold
    /\ call.reply.kind = "json"
    /\ ~call.reply.leave
    /\ call.reply.confidence_red = Some(50)
    /\ call.reply.public_reason = ReasonCertainRed
    /\ _reason_implies_certain_red_eye(call.reply.public_reason)
    /\ call.villager.eye_color = "RED"
    /\ ~call.result.leave
    /\ ~call.result.forced

\* C29: while round r = current_day is played, every villager present at its
\* start has observed_left_yesterday = the number of villagers stamped with
\* round r - 1 (0 for r = 1) and observed_left_total = the number of villagers
\* stamped with a round before r; these are also the values the villagers that
\* were present in the last round hold after it; and between rounds
\* left_yesterday_count is the number of villagers stamped with the last round.
Stamped(r) == Cardinality({ m \in Ids : villagers[m].left_on_day = Some(r) })

StampedBefore(r) ==
    Cardinality({ m \in Ids : /\ villagers[m].left_on_day # None
                              /\ villagers[m].left_on_day[1] < r })

C29_GroupStatistics ==
    /\ current_day >= 1 =>
         \A j \in Ids :
           ( ~villagers[j].has_left \/ villagers[j].left_on_day = Some(current_day) )
           => /\ villagers[j].observed_left_yesterday = Stamped(current_day - 1)
              /\ villagers[j].observed_left_total = StampedBefore(current_day)
    /\ pc = "deciding" => left_yesterday_count = Stamped(current_day - 1)
    /\ Idle => left_yesterday_count = Stamped(current_day)

C29_Witness ==
    /\ pc = "deciding"
    /\ current_day = 4
    /\ Stamped(2) = 2
    /\ \E j \in Ids : /\ ~villagers[j].has_left
                      /\ villagers[j].observed_left_yesterday = 0
                      /\ villagers[j].observed_left_total = 2

\* C30 as stated: leave called on a villager that has already left changes
\* nothing: has_left stays true and left_on_day keeps the day first stamped.
C30_LeaveGuarded ==
    ( call.made /\ call.villager.has_left )
    => /\ call.result.has_left
       /\ call.result.left_on_day = call.villager.left_on_day

\* C31: a decide call of the type-routing policy gives, for every villager,
\* day and announcement flag, the decision of mapping[villager_type] when the
\* type tag is a key of mapping, otherwise the decision of default when a
\* default is set, otherwise the decision of PerfectInductionPolicy.
C31_TypeRouted ==
    call.made
    => LET ty == call.villager.villager_type IN
       call.result =
         IF ty \in DOMAIN call.mapping
         THEN Decide(call.mapping[ty], call.villager, call.day, call.announced,
                     call.reply, call.key)
         ELSE IF call.default # None
         THEN Decide(call.default[1], call.villager, call.day, call.announced,
                     call.reply, call.key)
         ELSE PerfectInductionPolicy_decide(call.villager, call.day, call.announced)

\* a type absent from the mapping is routed to a default that stays where
\* PerfectInductionPolicy leaves
C31_Witness ==
    /\ call.made
    /\ call.villager.villager_type \notin DOMAIN call.mapping
    /\ call.default = Some(NoReasoningPolicy)
    /\ PerfectInductionPolicy_decide(call.villager, call.day, call.announced).leave
    /\ ~call.result.leave

\* C32: a decide call changes nothing of the villager except, possibly, by
\* appending to its reasoning log: across the step of the decide loop on
\* villager i every other villager is unchanged and villager i keeps its eye
\* colour, id, type tag, observed count, has_left and left_on_day, for every
\* policy; and has_left changes only in the step that ends simulate_day.
C32_DecideStep ==
    ( pc = "deciding" /\ i <= Len(villagers) )
    => /\ Len(villagers') = Len(villagers)
       /\ \A k \in Ids \ {i} : villagers'[k] = villagers[k]
       /\ villagers'[i].reasoning_log >= villagers[i].reasoning_log
       /\ [ villagers'[i] EXCEPT !.reasoning_log = villagers[i].reasoning_log ]
            = villagers[i]

C32_FlagStep ==
    ( \E k \in Ids : villagers'[k].has_left # villagers[k].has_left )
    => ( pc = "deciding" /\ i > Len(villagers) /\ pc' = "idle" )

C32_DecideOnlyLogs == [][C32_DecideStep /\ C32_FlagStep]_vars

\* a decide call has just answered leave and logged: the villager is in
\* leaving_today and still present, unstamped
C32_Witness ==
    /\ pc = "deciding"
    /\ i > 1
    /\ leaving_today # << >>
    /\ leaving_today[Len(leaving_today)] = i - 1
    /\ villagers[i - 1].reasoning_log > 0
    /\ ~villagers[i - 1].has_left
    /\ villagers[i - 1].left_on_day = None

\* C33: make_announcement and simulate_day leave the composition of the
\* village as it was built: the i-th villager has id i in every state, and no
\* step changes the number of villagers, a villager's id or eye colour, the
\* numbers of red-eyed and blue-eyed villagers or the reasoning policy.
C33_IdsState == \A k \in Ids : villagers[k].id = k

C33_CompositionStep ==
    /\ Len(villagers') = Len(villagers)
    /\ \A k \in Ids : /\ villagers'[k].id = villagers[k].id
                      /\ villagers'[k].eye_color = villagers[k].eye_color
    /\ Cardinality({ k \in 1..Len(villagers') : villagers'[k].eye_color = "RED" })
         = get_red_eye_count
    /\ Cardinality({ k \in 1..Len(villagers') : villagers'[k].eye_color = "BLUE" })
         = Cardinality({ k \in Ids : villagers[k].eye_color = "BLUE" })
    /\ reasoning_policy' = reasoning_policy

C33_CompositionFixed == [] C33_IdsState /\ [][C33_CompositionStep]_vars

\* after the announcement and a round in which a red-eyed villager left, next
\* to one of either colour that stayed
C33_Witness ==
    /\ pc = "idle"
    /\ announcement_made
    /\ current_day >= 2
    /\ \E k \in Ids : IsRed(k) /\ villagers[k].has_left
    /\ \E k \in Ids : IsRed(k) /\ ~villagers[k].has_left
    /\ \E k \in Ids : ~IsRed(k) /\ ~villagers[k].has_left

\* C34: current_day is 0 in a village just built; every simulate_day adds
\* exactly 1 to it (in its first step, and nothing afterwards), whether or not
\* the announcement has been made; make_announcement leaves it unchanged.
C34_CounterStep ==
    /\ ( pc = "idle" /\ pc' = "deciding" ) => current_day' = current_day + 1
    /\ ~ ( pc = "idle" /\ pc' = "deciding" ) => current_day' = current_day

C34_RoundCounter == current_day = 0 /\ [][C34_CounterStep]_vars

\* one round played before the announcement and two after it
C34_Witness ==
    /\ pc = "idle"
    /\ h_announce_day = Some(1)
    /\ announcement_made
    /\ current_day = 3

\* The limit on the rounds of a run: num_red + 5 (announcing) or
\* max(10, num_red + 10) for run_simulation, max(5, num_red + 10) (announced)
\* or 20 for the hosting run_all.
C35_Limit ==
    IF call.fn = "run_simulation"
    THEN IF call.announce THEN call.num_red + 5
         ELSE IF call.num_red + 10 > 10 THEN call.num_red + 10 ELSE 10
    ELSE IF call.announce
         THEN IF call.num_red + 10 > 5 THEN call.num_red + 10 ELSE 5
         ELSE 20

C35_RedPresent == Cardinality({ j \in Ids : IsRed(j) /\ ~villagers[j].has_left })

C35_Bounded ==
    call.started => /\ call.limit = C35_Limit
                    /\ call.rounds <= C35_Limit
                    /\ call.rounds = current_day

\* C35 as stated: both drivers terminate within their limit of rounds, and
\* neither begins a further round once a round has ended with every red-eyed
\* villager gone.
C35_StopStepAsStated ==
    ( call.started /\ call.rounds >= 1 /\ call'.rounds = call.rounds + 1 )
    => C35_RedPresent > 0

C35_DriversTerminateAsStated ==
    [] C35_Bounded /\ [][C35_StopStepAsStated]_vars /\ <> call.made

\* C35, amended: both drivers terminate within their limit of rounds; with at
\* least one red-eyed villager neither begins a further round once every
\* red-eyed villager is gone; with none, run_all plays no round and
\* run_simulation plays all the rounds of its limit.
C35_StopStep ==
    ( call.started /\ call.num_red > 0 /\ call'.rounds = call.rounds + 1 )
    => C35_RedPresent > 0

C35_ZeroRed ==
    ( call.made /\ ~call.raised /\ call.num_red = 0 )
    => call.rounds = IF call.fn = "run_simulation" THEN C35_Limit ELSE 0

C35_DriversTerminate ==
    [] ( C35_Bounded /\ C35_ZeroRed ) /\ [][C35_StopStep]_vars /\ <> call.made

\* a hosted run that returned after the round in which its red-eyed villager
\* left, a blue-eyed one staying, well inside its limit
C35_Witness ==
    /\ call.made
    /\ ~call.raised
    /\ call.fn = "run_all"
    /\ call.announce
    /\ call.num_red = 1
    /\ call.num_blue = 1
    /\ call.rounds = 1
    /\ call.limit = 11
    /\ C35_RedPresent = 0
    /\ \E j \in Ids : ~villagers[j].has_left

\* C36: for every villager state (eye colour, observed count >= 0, has_left),
\* every day >= 1 and both values of the announcement flag,
\* _perfect_induction_decide_no_log, PerfectInductionPolicy.decide and
\* Villager.reason_and_decide give the same decision, and the no-log function
\* appends nothing to the villager's reasoning log.
C36_ThreeCopiesAgree ==
    call.made
    => /\ call.no_log.leave = call.policy.leave
       /\ call.policy.leave = call.method.leave
       /\ call.no_log.logged = 0
       /\ ~call.no_log.raised /\ ~call.policy.raised /\ ~call.method.raised

\* the inductive step: a present red-eyed villager that sees two red-eyed
\* others, on day 3 after the announcement
C36_Witness ==
    /\ call.made
    /\ call.villager.eye_color = "RED"
    /\ ~call.villager.has_left
    /\ call.villager.observed_red_eyes = 2
    /\ call.announced
    /\ call.day = 3
    /\ call.no_log.leave /\ call.policy.leave /\ call.method.leave
    /\ call.policy.logged = 1 /\ call.method.logged = 1

\* C37: under FalliblePolicy (inner PerfectInductionPolicy), any mistake_rate
\* and seed, with k red-eyed villagers and the announcement made before the
\* first round, every villager that has left left in round k: nobody leaves in
\* any other round, so a red-eyed villager kept back in round k by a mistake
\* stays for good.
C37_FallibleOnlyRoundK ==
    ( reasoning_policy.kind = "Fallible" /\ h_announce_day = Some(0) )
    => /\ \A j \in Ids : villagers[j].has_left
             => villagers[j].left_on_day = Some(get_red_eye_count)
       /\ \A m \in 1..Len(leaving_today) : current_day = get_red_eye_count
       /\ \A j \in Ids : ( IsRed(j) /\ ~villagers[j].has_left
                           /\ pc = "idle" /\ current_day > get_red_eye_count )
             => villagers[j].left_on_day = None

\* two rounds after round k = 2: one red-eyed villager left in round 2, the
\* other was kept back by a mistake and is still there
C37_Witness ==
    /\ reasoning_policy.kind = "Fallible"
    /\ reasoning_policy.mistake_rate = 500
    /\ h_announce_day = Some(0)
    /\ pc = "idle"
    /\ get_red_eye_count = 2
    /\ current_day = 4
    /\ \E j \in Ids : IsRed(j) /\ villagers[j].left_on_day = Some(2)
    /\ \E j \in Ids : IsRed(j) /\ ~villagers[j].has_left

\* C38: when decide raises for some villager during simulate_day the round is
\* abandoned and nothing is taken back.  Across every step of the round up to
\* and including the one that raises, no villager's has_left or left_on_day
\* and not left_yesterday_count changes, and the step that raises ends the
\* round; the day counter, increased when the round began, is not restored, so
\* after an abandoned round nobody is stamped with current_day and the next
\* simulate_day runs with current_day + 1.
C38_RoundStep ==
    ( pc = "idle" /\ pc' = "deciding" ) \/ ( pc = "deciding" /\ i <= Len(villagers) )
    => /\ \A j \in Ids : /\ villagers'[j].has_left = villagers[j].has_left
                         /\ villagers'[j].left_on_day = villagers[j].left_on_day
       /\ left_yesterday_count' = left_yesterday_count
       /\ current_day' = IF pc = "idle" THEN current_day + 1 ELSE current_day
       /\ ( pc = "deciding" /\ raised' ) => ( pc' = "idle" /\ leaving_today' = << >> )

C38_AbandonedState ==
    ( pc = "idle" /\ raised )
    => /\ current_day >= 1
       /\ \A j \in Ids : villagers[j].left_on_day # Some(current_day)

C38_RaiseAbandonsRound == [] C38_AbandonedState /\ [][C38_RoundStep]_vars

\* the second round was abandoned after a red-eyed villager had decided to
\* leave in it: it is still there, unstamped, and the counter is at 2
C38_Witness ==
    /\ pc = "idle"
    /\ raised
    /\ ~api_key
    /\ h_announce_day = Some(0)
    /\ current_day = 2
    /\ \A j \in Ids : ~villagers[j].has_left
    /\ \E j \in Ids :
         /\ IsRed(j)
         /\ \A m \in 1..j : villagers[m].villager_type = "dummy"
         /\ \E m \in Ids : villagers[m].villager_type = "openai"
         /\ villagers[j].reasoning_log = 2
         /\ _perfect_induction_decide_no_log(villagers[j], current_day, announcement_made)

\* C39: under PerfectInduction, NoReasoning, BoundedInduction, MaxDayCutoff
\* and Fallible (over PerfectInduction), two villagers with the same eye
\* colour, id, type, observed count and has_left, on the same day and with the
\* same announcement flag, get the same decision whatever their
\* observed_left_yesterday and observed_left_total are.
C39_StatisticsIgnored ==
    call.made
    => /\ call.result1.leave = call.result2.leave
       /\ call.result1.logged = call.result2.logged
       /\ ~call.result1.raised /\ ~call.result2.raised

\* both leave, one having seen nobody leave and the other somebody
C39_Witness ==
    /\ call.made
    /\ call.policy.kind = "Fallible"
    /\ call.villager1.observed_left_yesterday # call.villager2.observed_left_yesterday
    /\ call.villager1.observed_left_total # call.villager2.observed_left_total
    /\ call.result1.leave
    /\ call.result2.leave

\* C40 as stated: GET /api/state never answers with a snapshot taken in the
\* middle of a round: when it answers with a snapshot whose currentDay is r,
\* no simulate_day on that village is between its decide loop and its leave
\* loop with departures of round r still to be applied.
C40_SnapshotNotMidRound ==
    ( call.made /\ call.state # None )
    => ~ \E t \in Threads :
           /\ requests[t].pc = "sd_apply"
           /\ requests[t].village = APP_STATE.village
           /\ requests[t].leaving_today # << >>
           /\ heap[requests[t].village[1]].current_day = call.state[1].currentDay
           /\ \E m \in 1..Len(requests[t].leaving_today) :
                ~call.state[1].villagers[requests[t].leaving_today[m]].hasLeft

=============================================================================
